---- MODULE Spec2Model ----
(***************************************************************************)
(* Model of the plasma-setup privileged helper (src/src/auth/authhelper.cpp,*)
(* current revision, lines 427-844) and of the GUI code that calls it.      *)
(* The helper is a single-threaded KAuth helper: one request is handled to  *)
(* completion, step by step, before the next one is accepted.  Every system *)
(* call whose result the code tests is a step with both outcomes.           *)
(***************************************************************************)
EXTENDS Integers, Sequences, FiniteSets, TLC

VARIABLES
    alive,        \* the helper process has not been terminated
    euid,         \* effective uid of the helper process
    egid,         \* effective gid of the helper process
    suppGroups,   \* TRUE while root's supplementary groups are still set
    guards,       \* number of live PrivilegeGuard objects
    pc,           \* position of the helper inside the current handler
    req,          \* the request being handled
    reply,        \* the ActionReply returned by the handler
    userInfo,     \* the handler's UserInfo local
    tempFiles,    \* live QTemporaryFile objects of the handler: name -> bytes
    pending,      \* value of the return expression while destructors run
    idx,          \* position of the handler's loop over its file list
    log,          \* system calls made by the current invocation, in order
    home,         \* per account: the files under its home directory
    sddmConf,     \* /etc/sddm.conf.d/99-plasma-setup.conf
    src,          \* files under /run/plasma-setup/.config
    unitEnabled,  \* plasma-setup.service is enabled
    loginDefs,    \* the login-definitions file (LOGIN_DEFS_PATH)
    m_username,   \* AccountController::m_username
    m_password,   \* AccountController::m_password
    accounts,     \* accounts created by the account-creation tool
    before,       \* what the caller could observe when the request was sent
    unitFile,     \* the unit file of plasma-setup.service exists
    passwdEntries, \* what getpwent() enumerates for the GUI process
    uidRange,     \* the pair regularUserUidRange() returned
    m_hasExistingUsers, \* AccountController::m_hasExistingUsers
    guiPc,        \* position of the GUI process
    requests,     \* KAuth jobs the GUI process has run, with their results
    m_hostname,   \* HostnameUtil::m_hostname
    hostCheck,    \* the last hostname validation and its result
    hostCall,     \* the last call of HostnameUtil::setHostname and its effects
    hostnamePage, \* properties of the hostname page, its text field and its debouncer
    accountPage,  \* texts of the account page's fields
    plasmaLoginEnabled, \* plasmalogin.service is enabled
    plasmaloginConf, \* /etc/plasmalogin.conf.d/99-plasma-setup.conf
    configUserGroups \* the UserGroups entry of the Accounts group of the configuration

vars == <<alive, euid, egid, suppGroups, guards, pc, req, reply, userInfo,
          tempFiles, pending, idx, log, home, sddmConf, src, unitEnabled,
          loginDefs, m_username, m_password, accounts, before, unitFile,
          passwdEntries, uidRange, m_hasExistingUsers, guiPc, requests,
          m_hostname, hostCheck, hostCall, hostnamePage, accountPage,
          plasmaLoginEnabled, plasmaloginConf, configUserGroups>>
procVars == <<alive, euid, egid, suppGroups, guards>>
fsVars == <<home, sddmConf, src, unitEnabled>>
guiVars == <<m_username, m_password>>
\* The wizard's pages and the configuration the boot utility and the wizard read.
pageVars == <<hostnamePage, accountPage, plasmaLoginEnabled, plasmaloginConf,
              configUserGroups>>
\* What no step of the helper changes: its environment and the rest of the GUI process.
envVars == <<loginDefs, unitFile, passwdEntries, uidRange, m_hasExistingUsers,
             guiPc, requests, m_hostname, hostCheck, hostCall, pageVars>>

-----------------------------------------------------------------------------
(* Bounds of the model *)

\* Kirigami.Units.humanMoment, the debouncer's interval, in ticks of the clock.
HumanMoment == 2
\* Largest number of changes the user makes to the hostname field.
MaxEdits == 3

\* Largest number of accounts the account-creation tool creates in one run.
MaxAccounts == 1

-----------------------------------------------------------------------------
(* Program constants *)

MIN_REGULAR_USER_UID == 1000
DEFAULT_MIN_REGULAR_USER_ID == 1000
MAX_USERNAME_LENGTH == 32
DEFAULT_MAX_REGULAR_USER_ID == 65000
MINIMUM_USER_ID == 0
MAXIMUM_USER_ID == 65535

Absent == "<absent>"

\* Usernames are character sequences, as the validator inspects characters.
UserAlice == <<"a", "l", "i", "c", "e">>
UserSddm == <<"s", "d", "d", "m">>
UserGhost == <<"g", "h", "o", "s", "t">>
UserBob == <<"b", "o", "b">>

\* The system account database read by getpwnam_r.
Passwd ==
    { [username |-> UserAlice, homePath |-> "/home/alice", uid |-> 1000, gid |-> 100],
      [username |-> UserSddm, homePath |-> "/var/lib/sddm", uid |-> 999, gid |-> 998] }

\* Entry of an account created by the account-creation tool.
NewAccount(name, n) ==
    [username |-> name, homePath |-> "/home/new", uid |-> 1000 + n, gid |-> 1000 + n]

LookupNames == {UserAlice, UserSddm, UserGhost}

NoUser == [username |-> <<>>, homePath |-> "", uid |-> -1, gid |-> -1]

ConfigFiles == {"kdeglobals", "kwinoutputconfig.json", "kwinrc"}
HookFile == "remove-autologin.desktop"
HomeFiles == ConfigFiles \cup {HookFile}

\* filesToCopy of setnewuserdisplayscaling, in list order.
filesToCopy == <<"kwinoutputconfig.json", "kwinrc">>

SrcBytes(f) == "bytes of /run/plasma-setup/.config/" \o f
HookBytes == "[Desktop Entry] ... NoDisplay=true"
AutologinBytes(name) == <<"[Autologin]", "User=", name, "Session=plasma", "Relogin=true">>

FreshHome == [configDir |-> FALSE, autostartDir |-> FALSE,
              files |-> [f \in HomeFiles |-> Absent]]

\* A home whose skeleton already ships a kwinrc.
SkelHome == [configDir |-> TRUE, autostartDir |-> FALSE,
             files |-> [f \in HomeFiles |-> IF f = "kwinrc" THEN "bytes of /etc/skel/.config/kwinrc"
                                            ELSE Absent]]

Homes == {e.homePath : e \in Passwd}

NoReq == [action |-> "none", kind |-> "missing", text |-> <<>>,
          password |-> <<>>, extraGroups |-> <<>>]
NoReply == [status |-> "None", error |-> ""]
SuccessReply == [status |-> "Success", error |-> ""]


makeErrorReply(errorDescription) == [status |-> "Error", error |-> errorDescription]

\* One logged call, with the effective ids it was made under.
Ev(op, arg, ok) == [op |-> op, arg |-> arg, ok |-> ok, euid |-> euid, egid |-> egid]

NoTemp == [f \in {} |-> Absent]

KeyUidMin == <<"U", "I", "D", "_", "M", "I", "N">>
KeyUidMax == <<"U", "I", "D", "_", "M", "A", "X">>

\* A login-definitions file: whether it can be opened, and its lines.
LoginDefsFile(readable, lines) == [readable |-> readable, lines |-> lines]

\* The login-definitions files the helper's runs are checked with: none, and
\* one that sets UID_MIN to 2000.
LoginDefsChoices ==
    { LoginDefsFile(FALSE, <<>>),
      LoginDefsFile(TRUE, << KeyUidMin \o <<" ", "2", "0", "0", "0">> >>) }

\* Contents of /run/plasma-setup/.config the wizard session may have left.
SrcChoices ==
    { [f \in ConfigFiles |-> SrcBytes(f)],
      [f \in ConfigFiles |-> IF f = "kwinrc" THEN Absent ELSE SrcBytes(f)],
      [f \in ConfigFiles |-> Absent] }

BootAutologin ==
    <<"[Autologin]", "User=",
      <<"p", "l", "a", "s", "m", "a", "-", "s", "e", "t", "u", "p">>, "Session=plasma">>

\* The files and process credentials an observer sees at this moment.
Snapshot == [home |-> home, sddmConf |-> sddmConf, unitEnabled |-> unitEnabled,
             euid |-> euid, egid |-> egid, accounts |-> accounts]

\* getpwent(): the entries' uids in order; the enumeration returns the first
\* `served` of them and then NULL, with errno set when entries were left over.
NoPasswd == [uids |-> <<>>, served |-> 0]

NoCheck == [input |-> <<>>, result |-> "None", message |-> "None"]
NoCall == [input |-> <<>>, was |-> <<>>, emitted |-> 0, sent |-> <<>>]

\* The hostname page before it is created: the field is empty, nothing was
\* validated (validated is the text the last updateValidation read), the
\* debouncer is stopped, the text is still bound to HostnameUtil.hostname, no
\* edit was made.
NoHostnamePage ==
    [text |-> <<>>, hasEdited |-> FALSE, validationPending |-> FALSE,
     debouncedHostnameValid |-> FALSE, debouncedHostnameMessage |-> "",
     validated |-> <<>>, running |-> FALSE, elapsed |-> 0, isTriggered |-> FALSE,
     bound |-> TRUE, edits |-> 0]

\* The account page with its fields empty.
NoAccountPage == [usernameField |-> <<>>, paswordField |-> <<>>, repeatField |-> <<>>]

\* The pages not yet shown, sddm as display manager, no UserGroups entry.
PagesIdle ==
    /\ hostnamePage = NoHostnamePage
    /\ accountPage = NoAccountPage
    /\ plasmaLoginEnabled = FALSE
    /\ plasmaloginConf = Absent
    /\ configUserGroups = Absent

\* The GUI process before any of its steps modelled here.
WizardIdle ==
    /\ passwdEntries = NoPasswd
    /\ uidRange = <<DEFAULT_MIN_REGULAR_USER_ID, DEFAULT_MAX_REGULAR_USER_ID>>
    /\ m_hasExistingUsers = FALSE
    /\ guiPc = "ready"
    /\ requests = <<>>
    /\ m_hostname = <<>>
    /\ hostCheck = NoCheck
    /\ hostCall = NoCall
    /\ PagesIdle

Init ==
    /\ alive = TRUE
    /\ euid = 0
    /\ egid = 0
    /\ suppGroups = TRUE
    /\ guards = 0
    /\ pc = "idle"
    /\ req = NoReq
    /\ reply = NoReply
    /\ userInfo = NoUser
    /\ tempFiles = NoTemp
    /\ pending = NoReply
    /\ idx = 1
    /\ log = <<>>
    /\ home \in {[h \in Homes |-> FreshHome],
                 [h \in Homes |-> IF h = "/home/alice" THEN SkelHome ELSE FreshHome]}
    /\ sddmConf \in {Absent, BootAutologin}
    /\ src \in SrcChoices
    /\ unitFile \in BOOLEAN
    /\ unitEnabled = unitFile
    /\ loginDefs \in LoginDefsChoices
    /\ m_username = <<>>
    /\ m_password = <<>>
    /\ accounts = {}
    /\ before = Snapshot
    /\ WizardIdle

-----------------------------------------------------------------------------
(* Requests *)

UsernameActions == {"createnewuserautostarthook", "setnewuserglobaltheme",
                    "setnewuserdisplayscaling", "setnewusertempautologin"}
PlainActions == {"removeautologin", "disablesystemdunit"}

\* Shapes of the "username" entry of the argument map: absent, a value
\* QVariant cannot convert to QString (a map), a QByteArray, a QString.
ArgValues ==
    {[kind |-> "missing", text |-> <<>>], [kind |-> "map", text |-> <<>>],
     [kind |-> "bytes", text |-> UserAlice]}
    \cup {[kind |-> "string", text |-> n] : n \in LookupNames}

\* QVariant::canConvert<QString>()
canConvertToQString(kind) == kind \in {"string", "bytes"}

\* The GUI process (or any caller) starts an action; the helper is idle.
Invoke(a, arg) ==
    /\ alive /\ pc = "idle"
    /\ req' = [action |-> a, kind |-> arg.kind, text |-> arg.text,
               password |-> <<>>, extraGroups |-> <<>>]
    /\ pc' = IF a \in UsernameActions THEN "args" ELSE a
    /\ UNCHANGED <<procVars, fsVars, guiVars, reply, userInfo, tempFiles, pending,
                   idx, log, envVars, before, accounts>>

\* A return that leaves the handler's temporary files behind.
ReturnKeepsTemp ==
    /\ alive /\ pc = "return"
    /\ reply' = pending
    /\ userInfo' = NoUser
    /\ pc' = "replied"
    /\ UNCHANGED <<procVars, fsVars, guiVars, req, pending, idx, log, envVars, before,
                   accounts, tempFiles>>

\* The handler's return: locals go out of scope, the reply is sent.
Return ==
    /\ alive /\ pc = "return"
    /\ reply' = pending
    /\ tempFiles' = NoTemp
    /\ userInfo' = NoUser
    /\ pc' = "replied"
    /\ UNCHANGED <<procVars, fsVars, guiVars, req, pending, idx, log, envVars, before, accounts>>

\* The caller, blocked in job->exec(), takes the reply.
ReceiveReply ==
    /\ alive /\ pc = "replied"
    /\ pc' = "idle"
    /\ req' = NoReq
    /\ reply' = NoReply
    /\ pending' = NoReply
    /\ idx' = 1
    /\ log' = <<>>
    /\ before' = Snapshot
    /\ UNCHANGED <<procVars, fsVars, guiVars, userInfo, tempFiles, envVars, accounts>>

\* if (!args.contains("username") || !args["username"].canConvert<QString>())
CheckArgs ==
    /\ alive /\ pc = "args"
    /\ IF req.kind = "missing" \/ ~canConvertToQString(req.kind)
       THEN /\ pending' = makeErrorReply("Username argument is missing or invalid.")
            /\ pc' = "return"
       ELSE /\ pc' = "getUserInfo"
            /\ UNCHANGED pending
    /\ UNCHANGED <<procVars, fsVars, guiVars, req, reply, userInfo, tempFiles, idx,
                   log, envVars, before, accounts>>

\* The account database as getpwnam_r sees it.
PasswdDb == Passwd \cup accounts

\* Where a handler continues once getUserInfo has returned.
AfterUserInfo(a) ==
    CASE a = "createnewuserautostarthook" -> "ctor_setgroups"
      [] a = "setnewusertempautologin" -> "autologin_open"
      [] OTHER -> "stage"

\* getUserInfo without the comparison against MIN_REGULAR_USER_UID.
getUserInfoNoSystemCheck(lookup) ==
    /\ alive /\ pc = "getUserInfo"
    /\ LET hit == {e \in PasswdDb : e.username = req.text}
       IN  /\ lookup = "found" => hit # {}
           /\ lookup = "none" => hit = {}
           /\ log' = Append(log, Ev("getpwnam_r", req.text, lookup = "found"))
           /\ IF lookup = "found"
              THEN /\ userInfo' = CHOOSE e \in hit : TRUE
                   /\ pc' = AfterUserInfo(req.action)
                   /\ UNCHANGED pending
              ELSE /\ pending' = makeErrorReply("User does not exist")
                   /\ pc' = "return"
                   /\ UNCHANGED userInfo
    /\ UNCHANGED <<procVars, fsVars, guiVars, req, reply, tempFiles, idx, envVars, before, accounts>>

\* UserInfo getUserInfo(username), with the handler's try/catch around it.
\* lookup: "found" (result set), "none" (ret == 0), "error" (ret != 0).
getUserInfo(lookup) ==
    /\ alive /\ pc = "getUserInfo"
    /\ LET hit == {e \in PasswdDb : e.username = req.text}
           failWith(msg) == /\ pending' = makeErrorReply(msg)
                            /\ pc' = "return"
                            /\ UNCHANGED userInfo
       IN  /\ lookup = "found" => hit # {}
           /\ lookup = "none" => hit = {}
           /\ log' = Append(log, Ev("getpwnam_r", req.text, lookup = "found"))
           /\ CASE lookup = "none" -> failWith("User does not exist")
                [] lookup = "error" -> failWith("System error while looking up user")
                [] OTHER ->
                     LET pwd == CHOOSE e \in hit : TRUE
                     IN  IF pwd.uid < MIN_REGULAR_USER_UID
                         THEN failWith("Refusing to perform action for system user")
                         ELSE /\ userInfo' = pwd
                              /\ pc' = AfterUserInfo(req.action)
                              /\ UNCHANGED pending
    /\ UNCHANGED <<procVars, fsVars, guiVars, req, reply, tempFiles, idx, envVars, before, accounts>>

-----------------------------------------------------------------------------
(* Staging File Transfer *)

\* The files a handler stages and copies, in order.
StagedList(a) == IF a = "setnewuserglobaltheme" THEN <<"kdeglobals">> ELSE filesToCopy

StageOutcomes == {"tmp_open_fail", "src_open_fail", "write_fail", "chmod_fail", "ok"}

\* The calls copyToTempFile makes up to and including the one that decides `outcome`.
StageCalls(f, outcome) ==
    LET all == <<Ev("QTemporaryFile::open", f, outcome # "tmp_open_fail"),
                 Ev("open_source", f, outcome # "src_open_fail"),
                 Ev("write_temp", f, outcome # "write_fail"),
                 Ev("chmod_temp_0644", f, outcome # "chmod_fail")>>
        n == CASE outcome = "tmp_open_fail" -> 1
               [] outcome = "src_open_fail" -> 2
               [] outcome = "write_fail" -> 3
               [] OTHER -> 4
    IN  SubSeq(all, 1, n)

\* tempFile = copyToTempFile(sourceFilePath), with the handler's try/catch:
\* any throw destroys the temporary file and returns an Error reply.
copyToTempFile(outcome) ==
    /\ alive /\ pc = "stage"
    /\ LET f == StagedList(req.action)[idx]
       IN  /\ src[f] = Absent => outcome \in {"tmp_open_fail", "src_open_fail"}
           /\ log' = log \o StageCalls(f, outcome)
           /\ IF outcome = "ok"
              THEN /\ tempFiles' = (f :> src[f]) @@ tempFiles
                   /\ IF idx < Len(StagedList(req.action))
                      THEN /\ idx' = idx + 1
                           /\ pc' = "stage"
                      ELSE /\ idx' = 1
                           /\ pc' = "ctor_setgroups"
                   /\ UNCHANGED pending
              ELSE /\ pending' = makeErrorReply("Error copying file to temporary location")
                   /\ pc' = "return"
                   /\ UNCHANGED <<tempFiles, idx>>
    /\ UNCHANGED <<procVars, fsVars, guiVars, req, reply, userInfo, envVars, before, accounts>>

-----------------------------------------------------------------------------
(* PrivilegeGuard *)

\* The constructor's exception with no catch block around the guard: it leaves
\* the handler and the process ends in std::terminate.
DropFailedUncaught ==
    /\ pending' = pending
    /\ pc' = "terminated"

\* A failed step of the constructor that does not throw: the constructor goes
\* on to its last step.
DropFailedContinues ==
    /\ pending' = pending
    /\ pc' = "ctor_seteuid"

\* The exception of the constructor, caught by the handler's catch block. The
\* object was never constructed, so its destructor does not run.
DropFailed ==
    /\ pending' = makeErrorReply("Failed to drop privileges")
    /\ pc' = "return"

\* First statement of a handler's guarded block.
BodyEntry(a) ==
    CASE a = "createnewuserautostarthook" -> "hook_mkpath"
      [] a = "setnewuserglobaltheme" -> "theme_mkpath"
      [] OTHER -> "scaling_mkpath"

\* PrivilegeGuard::PrivilegeGuard: setgroups(0, nullptr)
GuardSetgroups(ok) ==
    /\ alive /\ pc = "ctor_setgroups"
    /\ log' = Append(log, Ev("setgroups", 0, ok))
    /\ IF ok
       THEN /\ suppGroups' = FALSE
            /\ pc' = "ctor_setegid"
            /\ UNCHANGED pending
       ELSE /\ DropFailed
            /\ UNCHANGED suppGroups
    /\ UNCHANGED <<alive, euid, egid, guards, fsVars, guiVars, req, reply, userInfo,
                   tempFiles, idx, envVars, before, accounts>>

\* PrivilegeGuard::PrivilegeGuard: setegid(userInfo.gid)
GuardSetegid(ok) ==
    /\ alive /\ pc = "ctor_setegid"
    /\ log' = Append(log, Ev("setegid", userInfo.gid, ok))
    /\ IF ok
       THEN /\ egid' = userInfo.gid
            /\ pc' = "ctor_seteuid"
            /\ UNCHANGED pending
       ELSE /\ DropFailed
            /\ UNCHANGED egid
    /\ UNCHANGED <<alive, euid, suppGroups, guards, fsVars, guiVars, req, reply,
                   userInfo, tempFiles, idx, envVars, before, accounts>>

\* A constructor whose last step reports success without changing the
\* effective uid.
GuardSeteuidKeepsRoot(ok) ==
    /\ alive /\ pc = "ctor_seteuid"
    /\ log' = Append(log, Ev("seteuid", userInfo.uid, ok))
    /\ IF ok
       THEN /\ guards' = guards + 1
            /\ pc' = BodyEntry(req.action)
            /\ UNCHANGED pending
       ELSE /\ DropFailed
            /\ UNCHANGED guards
    /\ UNCHANGED <<alive, euid, egid, suppGroups, fsVars, guiVars, req, reply, userInfo,
                   tempFiles, idx, envVars, before, accounts>>

\* PrivilegeGuard::PrivilegeGuard: seteuid(userInfo.uid); on success the guard is live.
GuardSeteuid(ok) ==
    /\ alive /\ pc = "ctor_seteuid"
    /\ log' = Append(log, Ev("seteuid", userInfo.uid, ok))
    /\ IF ok
       THEN /\ euid' = userInfo.uid
            /\ guards' = guards + 1
            /\ pc' = BodyEntry(req.action)
            /\ UNCHANGED pending
       ELSE /\ DropFailed
            /\ UNCHANGED <<euid, guards>>
    /\ UNCHANGED <<alive, egid, suppGroups, fsVars, guiVars, req, reply, userInfo,
                   tempFiles, idx, envVars, before, accounts>>

\* A destructor that only logs the failure and lets the handler return.
TerminateWarnOnly ==
    /\ alive' = alive
    /\ pc' = "return"

\* std::terminate()
Terminate ==
    /\ alive' = FALSE
    /\ pc' = "terminated"

\* PrivilegeGuard::~PrivilegeGuard: setegid(0)
GuardRestoreEgid(ok) ==
    /\ alive /\ pc = "dtor_setegid"
    /\ log' = Append(log, Ev("setegid", 0, ok))
    /\ IF ok
       THEN /\ egid' = 0
            /\ pc' = "dtor_seteuid"
            /\ UNCHANGED alive
       ELSE /\ Terminate
            /\ UNCHANGED egid
    /\ UNCHANGED <<euid, suppGroups, guards, fsVars, guiVars, req, reply, userInfo,
                   tempFiles, pending, idx, envVars, before, accounts>>

\* PrivilegeGuard::~PrivilegeGuard: seteuid(0); on success the guard is gone.
GuardRestoreEuid(ok) ==
    /\ alive /\ pc = "dtor_seteuid"
    /\ log' = Append(log, Ev("seteuid", 0, ok))
    /\ IF ok
       THEN /\ euid' = 0
            /\ guards' = guards - 1
            /\ pc' = "return"
            /\ UNCHANGED alive
       ELSE /\ Terminate
            /\ UNCHANGED <<euid, guards>>
    /\ UNCHANGED <<egid, suppGroups, fsVars, guiVars, req, reply, userInfo,
                   tempFiles, pending, idx, envVars, before, accounts>>

-----------------------------------------------------------------------------
(* Handler bodies that run inside the guarded block *)

\* A return on which the guard is not destroyed.
ReturnGuardedLeak(r) ==
    /\ pending' = r
    /\ pc' = "return"

\* `return <reply>;` inside the try block: the guard's destructor runs first.
ReturnGuarded(r) ==
    /\ pending' = r
    /\ pc' = "dtor_setegid"

\* A copy that leaves the destination behind when it reports failure.
QFileCopyLeavesPartial(h, f, ok) ==
    /\ ok => (home[h].configDir /\ home[h].files[f] = Absent)
    /\ log' = Append(log, Ev("copy", f, ok))
    /\ home' = IF home[h].configDir /\ home[h].files[f] = Absent
               THEN [home EXCEPT ![h].files[f] = tempFiles[f]]
               ELSE home

\* QFile::copy(destFilePath) into <home>/.config: it refuses to overwrite an
\* existing destination and needs the directory; otherwise it may still fail.
QFileCopy(h, f, ok) ==
    /\ ok => (home[h].configDir /\ home[h].files[f] = Absent)
    /\ log' = Append(log, Ev("copy", f, ok))
    /\ home' = IF ok THEN [home EXCEPT ![h].files[f] = tempFiles[f]] ELSE home

\* createnewuserautostarthook: if (!autostartDir.exists() && !autostartDir.mkpath("."))
\* mkpath of <home>/.config/autostart may fail after creating <home>/.config.
HookMkpath(outcome) ==
    /\ alive /\ pc = "hook_mkpath"
    /\ LET h == userInfo.homePath
       IN  IF home[h].autostartDir
           THEN /\ outcome = "ok"
                /\ pc' = "hook_open"
                /\ UNCHANGED <<home, log, pending>>
           ELSE /\ outcome = "partial" => ~home[h].configDir
                /\ log' = Append(log, Ev("mkpath", ".config/autostart", outcome = "ok"))
                /\ home' = CASE outcome = "ok" ->
                                  [home EXCEPT ![h].configDir = TRUE, ![h].autostartDir = TRUE]
                             [] outcome = "partial" -> [home EXCEPT ![h].configDir = TRUE]
                             [] OTHER -> home
                /\ IF outcome = "ok"
                   THEN /\ pc' = "hook_open"
                        /\ UNCHANGED pending
                   ELSE ReturnGuarded(makeErrorReply("Unable to create autostart directory"))
    /\ UNCHANGED <<procVars, sddmConf, src, unitEnabled, guiVars, req, reply, userInfo,
                   tempFiles, idx, envVars, before, accounts>>

\* createnewuserautostarthook: open the desktop file for writing, write it, close it.
HookWrite(ok) ==
    /\ alive /\ pc = "hook_open"
    /\ LET h == userInfo.homePath
       IN  /\ log' = Append(log, Ev("open_write", HookFile, ok))
           /\ IF ok
              THEN /\ home' = [home EXCEPT ![h].files[HookFile] = HookBytes]
                   /\ ReturnGuarded(SuccessReply)
              ELSE /\ ReturnGuarded(makeErrorReply("Unable to open file for writing"))
                   /\ UNCHANGED home
    /\ UNCHANGED <<procVars, sddmConf, src, unitEnabled, guiVars, req, reply, userInfo,
                   tempFiles, idx, envVars, before, accounts>>

\* setnewuserglobaltheme: if (!configDir.exists() && !configDir.mkpath("."))
ThemeMkpath(ok) ==
    /\ alive /\ pc = "theme_mkpath"
    /\ LET h == userInfo.homePath
       IN  IF home[h].configDir
           THEN /\ ok
                /\ pc' = "theme_copy"
                /\ UNCHANGED <<home, log, pending>>
           ELSE /\ log' = Append(log, Ev("mkpath", ".config", ok))
                /\ IF ok
                   THEN /\ home' = [home EXCEPT ![h].configDir = TRUE]
                        /\ pc' = "theme_copy"
                        /\ UNCHANGED pending
                   ELSE /\ ReturnGuarded(makeErrorReply("Unable to create .config directory"))
                        /\ UNCHANGED home
    /\ UNCHANGED <<procVars, sddmConf, src, unitEnabled, guiVars, req, reply, userInfo,
                   tempFiles, idx, envVars, before, accounts>>

\* setnewuserglobaltheme: if (!tempFile->copy(destFilePath)) ... return SuccessReply
ThemeCopy(ok) ==
    /\ alive /\ pc = "theme_copy"
    /\ QFileCopy(userInfo.homePath, "kdeglobals", ok)
    /\ IF ok
       THEN ReturnGuarded(SuccessReply)
       ELSE ReturnGuarded(makeErrorReply("Unable to copy file to destination"))
    /\ UNCHANGED <<procVars, sddmConf, src, unitEnabled, guiVars, req, reply, userInfo,
                   tempFiles, idx, envVars, before, accounts>>

\* setnewuserdisplayscaling: if (!destDir.exists()) destDir.mkpath(destBasePath);
\* The result of mkpath is not tested.
ScalingMkpath(ok) ==
    /\ alive /\ pc = "scaling_mkpath"
    /\ LET h == userInfo.homePath
       IN  IF home[h].configDir
           THEN /\ ok
                /\ UNCHANGED <<home, log>>
           ELSE /\ log' = Append(log, Ev("mkpath", ".config", ok))
                /\ home' = IF ok THEN [home EXCEPT ![h].configDir = TRUE] ELSE home
    /\ pc' = "scaling_copy"
    /\ UNCHANGED <<procVars, sddmConf, src, unitEnabled, guiVars, req, reply, userInfo,
                   tempFiles, pending, idx, envVars, before, accounts>>

\* setnewuserdisplayscaling: one iteration of the copy loop over filesToCopy.
ScalingCopy(ok) ==
    /\ alive /\ pc = "scaling_copy"
    /\ QFileCopy(userInfo.homePath, filesToCopy[idx], ok)
    /\ IF ~ok
       THEN /\ ReturnGuarded(makeErrorReply("Unable to copy file to destination"))
            /\ UNCHANGED idx
       ELSE IF idx < Len(filesToCopy)
            THEN /\ idx' = idx + 1
                 /\ UNCHANGED <<pc, pending>>
            ELSE /\ ReturnGuarded(SuccessReply)
                 /\ UNCHANGED idx
    /\ UNCHANGED <<procVars, sddmConf, src, unitEnabled, guiVars, req, reply, userInfo,
                   tempFiles, envVars, before, accounts>>

-----------------------------------------------------------------------------
(* Handlers that do not drop privileges *)

\* setnewusertempautologin writing the descriptor without the Relogin entry.
WriteTempAutologinNoRelogin(ok) ==
    /\ alive /\ pc = "autologin_open"
    /\ log' = Append(log, Ev("open_write", "99-plasma-setup.conf", ok))
    /\ IF ok
       THEN /\ sddmConf' = <<"[Autologin]", "User=", req.text, "Session=plasma">>
            /\ pending' = SuccessReply
       ELSE /\ pending' = makeErrorReply("Unable to open file for writing")
            /\ UNCHANGED sddmConf
    /\ pc' = "return"
    /\ UNCHANGED <<procVars, home, src, unitEnabled, guiVars, req, reply, userInfo,
                   tempFiles, idx, envVars, before, accounts>>

\* setnewusertempautologin: open the autologin file for writing and write it.
WriteTempAutologin(ok) ==
    /\ alive /\ pc = "autologin_open"
    /\ log' = Append(log, Ev("open_write", "99-plasma-setup.conf", ok))
    /\ IF ok
       THEN /\ sddmConf' = AutologinBytes(req.text)
            /\ pending' = SuccessReply
       ELSE /\ pending' = makeErrorReply("Unable to open file for writing")
            /\ UNCHANGED sddmConf
    /\ pc' = "return"
    /\ UNCHANGED <<procVars, home, src, unitEnabled, guiVars, req, reply, userInfo,
                   tempFiles, idx, envVars, before, accounts>>

\* removeautologin without the test for the file's existence.
removeautologinNoExistsCheck(ok) ==
    /\ alive /\ pc = "removeautologin"
    /\ sddmConf = Absent => ~ok
    /\ log' = Append(log, Ev("remove", "99-plasma-setup.conf", ok))
    /\ sddmConf' = IF ok THEN Absent ELSE sddmConf
    /\ pending' = IF ok THEN SuccessReply ELSE makeErrorReply("Unable to remove file")
    /\ pc' = "return"
    /\ UNCHANGED <<procVars, home, src, unitEnabled, guiVars, req, reply, userInfo,
                   tempFiles, idx, envVars, before, accounts>>

\* removeautologin
removeautologin(ok) ==
    /\ alive /\ pc = "removeautologin"
    /\ IF sddmConf = Absent
       THEN /\ ok
            /\ pending' = SuccessReply
            /\ UNCHANGED <<sddmConf, log>>
       ELSE /\ log' = Append(log, Ev("remove", "99-plasma-setup.conf", ok))
            /\ sddmConf' = IF ok THEN Absent ELSE sddmConf
            /\ pending' = IF ok THEN SuccessReply
                          ELSE makeErrorReply("Unable to remove file")
    /\ pc' = "return"
    /\ UNCHANGED <<procVars, home, src, unitEnabled, guiVars, req, reply, userInfo,
                   tempFiles, idx, envVars, before, accounts>>

\* disablesystemdunit: DisableUnitFiles over D-Bus; isError decides the reply.
\* The service manager answers with an error when the unit file does not exist;
\* with the file present the call may still fail for another reason.
disablesystemdunit(isError) ==
    /\ alive /\ pc = "disablesystemdunit"
    /\ ~unitFile => isError
    /\ log' = Append(log, Ev("DisableUnitFiles", "plasma-setup.service", ~isError))
    /\ unitEnabled' = IF isError THEN unitEnabled ELSE FALSE
    /\ pending' = IF isError THEN makeErrorReply("Unable to disable systemd unit")
                  ELSE SuccessReply
    /\ pc' = "return"
    /\ UNCHANGED <<procVars, home, sddmConf, src, guiVars, req, reply, userInfo,
                   tempFiles, idx, envVars, before, accounts>>

-----------------------------------------------------------------------------
(* The helper's request loop *)

Next ==
    \/ \E a \in UsernameActions, arg \in ArgValues : Invoke(a, arg)
    \/ \E a \in PlainActions : Invoke(a, [kind |-> "missing", text |-> <<>>])
    \/ CheckArgs
    \/ \E lookup \in {"found", "none", "error"} : getUserInfo(lookup)
    \/ \E outcome \in StageOutcomes : copyToTempFile(outcome)
    \/ \E ok \in BOOLEAN : GuardSetgroups(ok)
    \/ \E ok \in BOOLEAN : GuardSetegid(ok)
    \/ \E ok \in BOOLEAN : GuardSeteuid(ok)
    \/ \E outcome \in {"ok", "fail", "partial"} : HookMkpath(outcome)
    \/ \E ok \in BOOLEAN : HookWrite(ok)
    \/ \E ok \in BOOLEAN : ThemeMkpath(ok)
    \/ \E ok \in BOOLEAN : ThemeCopy(ok)
    \/ \E ok \in BOOLEAN : ScalingMkpath(ok)
    \/ \E ok \in BOOLEAN : ScalingCopy(ok)
    \/ \E ok \in BOOLEAN : GuardRestoreEgid(ok)
    \/ \E ok \in BOOLEAN : GuardRestoreEuid(ok)
    \/ \E ok \in BOOLEAN : WriteTempAutologin(ok)
    \/ \E ok \in BOOLEAN : removeautologin(ok)
    \/ \E isError \in BOOLEAN : disablesystemdunit(isError)
    \/ Return
    \/ ReceiveReply

Spec == Init /\ [][Next]_vars

-----------------------------------------------------------------------------
(* Username validation (PlasmaSetupValidation::Account) *)

Letters == {"a", "b", "c", "d", "e", "f", "g", "h", "i", "j", "k", "l", "m",
            "n", "o", "p", "q", "r", "s", "t", "u", "v", "w", "x", "y", "z",
            "A", "B", "C", "D", "E", "F", "G", "H", "I", "J", "K", "L", "M",
            "N", "O", "P", "Q", "R", "S", "T", "U", "V", "W", "X", "Y", "Z"}
Digits == {"0", "1", "2", "3", "4", "5", "6", "7", "8", "9"}
Whitespace == {" ", "\t", "\n"}

RECURSIVE dropLeadingSpace(_)
dropLeadingSpace(s) ==
    IF s # <<>> /\ Head(s) \in Whitespace THEN dropLeadingSpace(Tail(s)) ELSE s

RECURSIVE dropTrailingSpace(_)
dropTrailingSpace(s) ==
    IF s # <<>> /\ s[Len(s)] \in Whitespace
    THEN dropTrailingSpace(SubSeq(s, 1, Len(s) - 1))
    ELSE s

\* QString::trimmed()
trimmed(s) == dropTrailingSpace(dropLeadingSpace(s))

\* ^[A-Za-z_][A-Za-z0-9_.-]*$
usernamePattern(s) ==
    /\ s # <<>>
    /\ s[1] \in Letters \cup {"_"}
    /\ \A i \in 2..Len(s) : s[i] \in Letters \cup Digits \cup {"_", ".", "-"}

validateUsername(username) ==
    LET t == trimmed(username)
    IN  IF t = <<>> THEN "Empty"
        ELSE IF Len(t) > MAX_USERNAME_LENGTH THEN "TooLong"
        ELSE IF ~usernamePattern(t) THEN "InvalidCharacters"
        ELSE "Valid"

isUsernameValid(username) == validateUsername(username) = "Valid"

-----------------------------------------------------------------------------
(* AccountController (GUI process) *)

Repeat(c, n) == [i \in 1..n |-> c]

\* Texts the username field can hold.
RawUsernames ==
    { <<>>, <<" ">>, UserBob, <<" ">> \o UserBob \o <<" ">>, <<"1", "b">>,
      <<"b", "!">>, <<"_", "a", ".", "b", "-", "1">>,
      Repeat("a", MAX_USERNAME_LENGTH), Repeat("a", MAX_USERNAME_LENGTH + 1) }

\* Texts the password property can hold.
RawPasswords == { <<>>, <<"p", "w">> }

\* QString::split(sep, Qt::SkipEmptyParts): the stretches between the
\* separators, those of no characters left out.
RECURSIVE splitSkipEmptyParts(_, _, _)
splitSkipEmptyParts(s, sep, part) ==
    IF s = <<>> THEN IF part = <<>> THEN <<>> ELSE <<part>>
    ELSE IF Head(s) = sep
         THEN (IF part = <<>> THEN <<>> ELSE <<part>>)
                  \o splitSkipEmptyParts(Tail(s), sep, <<>>)
         ELSE splitSkipEmptyParts(Tail(s), sep, Append(part, Head(s)))

Wheel == <<"w", "h", "e", "e", "l">>

\* QStringList AccountController::userGroupsFromConfig() const: readEntry
\* gives the empty text when there is no UserGroups entry.
userGroupsFromConfig ==
    LET configuredGroups == IF configUserGroups = Absent THEN <<>> ELSE configUserGroups
        groupNames == IF configuredGroups # <<>>
                      THEN splitSkipEmptyParts(configuredGroups, ",", <<>>)
                      ELSE <<>>
        parsedGroups == [n \in 1..Len(groupNames) |-> trimmed(groupNames[n])]
    IN  IF parsedGroups = <<>> THEN <<Wheel>> ELSE parsedGroups

\* void AccountController::setUsername(const QString &username)
setUsername(username) ==
    /\ pc = "idle"
    /\ m_username # username
    /\ m_username' = username
    /\ UNCHANGED <<procVars, fsVars, pc, req, reply, userInfo, tempFiles, pending,
                   idx, log, envVars, before, m_password, accounts>>

\* void AccountController::setPassword(const QString &password)
setPassword(password) ==
    /\ pc = "idle"
    /\ m_password' = password
    /\ UNCHANGED <<procVars, fsVars, pc, req, reply, userInfo, tempFiles, pending,
                   idx, log, envVars, before, m_username, accounts>>

\* bool AccountController::createUser(): the request carries the properties as
\* they are; job->exec() then blocks until the reply arrives.
createUser ==
    /\ alive /\ pc = "idle"
    /\ req' = [action |-> "createuser", kind |-> "string", text |-> m_username,
               password |-> m_password, extraGroups |-> userGroupsFromConfig]
    /\ pc' = "cu_validate"
    /\ UNCHANGED <<procVars, fsVars, guiVars, reply, userInfo, tempFiles, pending,
                   idx, log, envVars, before, accounts>>

-----------------------------------------------------------------------------
(* The helper's createuser action *)

\* createuser checking the username only.
createuserValidateNameOnly ==
    /\ alive /\ pc = "cu_validate"
    /\ IF validateUsername(req.text) # "Valid"
       THEN /\ pending' = makeErrorReply("Invalid username")
            /\ pc' = "return"
       ELSE /\ pc' = "cu_useradd"
            /\ UNCHANGED pending
    /\ UNCHANGED <<procVars, fsVars, guiVars, req, reply, userInfo, tempFiles, idx,
                   log, envVars, before, accounts>>

\* createuser: validate the username and require a non-empty password.
createuserValidate ==
    /\ alive /\ pc = "cu_validate"
    /\ IF validateUsername(req.text) # "Valid"
       THEN /\ pending' = makeErrorReply("Invalid username")
            /\ pc' = "return"
       ELSE IF req.password = <<>>
            THEN /\ pending' = makeErrorReply("Password must not be empty")
                 /\ pc' = "return"
            ELSE /\ pc' = "cu_useradd"
                 /\ UNCHANGED pending
    /\ UNCHANGED <<procVars, fsVars, guiVars, req, reply, userInfo, tempFiles, idx,
                   log, envVars, before, accounts>>

\* An external tool failed: the remaining steps are skipped, nothing is rolled back.
ToolFailed(tool) ==
    /\ pending' = makeErrorReply(tool \o " failed")
    /\ pc' = "return"

\* createuser: the account-creation tool creates the account and its home.
createuserUseradd(ok) ==
    /\ alive /\ pc = "cu_useradd"
    /\ ok => /\ Cardinality(accounts) < MaxAccounts
             /\ \A e \in PasswdDb : e.username # req.text
    /\ log' = Append(log, Ev("useradd", req.text, ok))
    /\ IF ok
       THEN /\ accounts' = accounts \cup {NewAccount(req.text, Cardinality(accounts) + 1)}
            /\ pc' = IF req.extraGroups # <<>> THEN "cu_groups" ELSE "cu_passwd"
            /\ UNCHANGED pending
       ELSE /\ ToolFailed("useradd")
            /\ UNCHANGED accounts
    /\ UNCHANGED <<procVars, fsVars, guiVars, req, reply, userInfo, tempFiles, idx, envVars, before>>

\* createuser: validate the group names, then one call of the group-membership tool.
createuserGroups(ok) ==
    /\ alive /\ pc = "cu_groups"
    /\ log' = Append(log, Ev("usermod", req.extraGroups, ok))
    /\ IF ok
       THEN /\ pc' = "cu_passwd"
            /\ UNCHANGED pending
       ELSE ToolFailed("usermod")
    /\ UNCHANGED <<procVars, fsVars, guiVars, req, reply, userInfo, tempFiles, idx,
                   envVars, before, accounts>>

\* createuser: the password-setting tool, the secret on its standard input.
createuserPassword(ok) ==
    /\ alive /\ pc = "cu_passwd"
    /\ log' = Append(log, Ev("chpasswd", "stdin", ok))
    /\ IF ok
       THEN /\ pc' = "cu_resolve"
            /\ UNCHANGED pending
       ELSE ToolFailed("chpasswd")
    /\ UNCHANGED <<procVars, fsVars, guiVars, req, reply, userInfo, tempFiles, idx,
                   envVars, before, accounts>>

\* createuser: resolve the new identity and return it.
createuserResolve(ok) ==
    /\ alive /\ pc = "cu_resolve"
    /\ log' = Append(log, Ev("getpwnam_r", req.text, ok))
    /\ pending' = IF ok THEN SuccessReply ELSE makeErrorReply("Unable to resolve the new user")
    /\ pc' = "return"
    /\ UNCHANGED <<procVars, fsVars, guiVars, req, reply, userInfo, tempFiles, idx,
                   envVars, before, accounts>>

\* Account creation as the wizard drives it.
AccountNext ==
    \/ \E u \in RawUsernames : setUsername(u)
    \/ \E p \in RawPasswords : setPassword(p)
    \/ createUser
    \/ createuserValidate
    \/ \E ok \in BOOLEAN : createuserUseradd(ok)
    \/ \E ok \in BOOLEAN : createuserGroups(ok)
    \/ \E ok \in BOOLEAN : createuserPassword(ok)
    \/ \E ok \in BOOLEAN : createuserResolve(ok)
    \/ Return
    \/ ReceiveReply

AccountSpec == Init /\ [][AccountNext]_vars

-----------------------------------------------------------------------------
(* AccountController: the uid range of regular users and existing users *)

DigitSeq == <<"0", "1", "2", "3", "4", "5", "6", "7", "8", "9">>
DigitValue(c) == (CHOOSE n \in 1..Len(DigitSeq) : DigitSeq[n] = c) - 1

\* Value of a run of decimal digits, or -1 when it does not fit an int.
RECURSIVE digitsValue(_)
digitsValue(s) ==
    IF s = <<>> THEN 0
    ELSE LET high == digitsValue(SubSeq(s, 1, Len(s) - 1))
             digit == DigitValue(s[Len(s)])
         IN  IF high < 0 \/ high > 214748364 \/ (high = 214748364 /\ digit > 7)
             THEN -1
             ELSE high * 10 + digit

\* int QString::toInt(bool *ok): an optional sign and decimal digits, within
\* int.  (The one int this leaves out, -2^31, is negative: its caller rejects it
\* exactly as it rejects a failed conversion.)
toInt(token) ==
    LET signed == token # <<>> /\ token[1] \in {"+", "-"}
        digits == IF signed THEN Tail(token) ELSE token
        allDigits == digits # <<>> /\ \A i \in 1..Len(digits) : digits[i] \in Digits
        magnitude == IF allDigits THEN digitsValue(digits) ELSE -1
        ok == allDigits /\ magnitude >= 0
        value == IF signed /\ token[1] = "-" THEN 0 - magnitude ELSE magnitude
    IN  [ok |-> ok, value |-> IF ok THEN value ELSE 0]

\* QString::split(QRegularExpression("\\s+"), Qt::SkipEmptyParts)
RECURSIVE splitWhitespace(_, _, _)
splitWhitespace(s, current, tokens) ==
    LET flushed == IF current = <<>> THEN tokens ELSE Append(tokens, current)
    IN  IF s = <<>> THEN flushed
        ELSE IF Head(s) \in Whitespace
             THEN splitWhitespace(Tail(s), <<>>, flushed)
             ELSE splitWhitespace(Tail(s), Append(current, Head(s)), tokens)

\* One pass of the while loop of regularUserUidRange over the line read.
ParseLoginDefsLine(line, range) ==
    LET trimmedLine == trimmed(line)
        tokens == splitWhitespace(trimmedLine, <<>>, <<>>)
        parsed == toInt(tokens[2])
        accepted == parsed.ok /\ parsed.value >= 0
    IN  IF trimmedLine = <<>> \/ trimmedLine[1] = "#" THEN range
        ELSE IF Len(tokens) >= 2 /\ tokens[1] = KeyUidMin
             THEN IF accepted THEN <<parsed.value, range[2]>> ELSE range
        ELSE IF Len(tokens) >= 2 /\ tokens[1] = KeyUidMax
             THEN IF accepted THEN <<range[1], parsed.value>> ELSE range
        ELSE range

RECURSIVE ParseLoginDefsLines(_, _)
ParseLoginDefsLines(lines, range) ==
    IF lines = <<>> THEN range
    ELSE ParseLoginDefsLines(Tail(lines), ParseLoginDefsLine(Head(lines), range))

\* regularUserUidRange in which the first entry of a key wins.
RECURSIVE ParseLoginDefsLinesFirstWins(_, _)
ParseLoginDefsLinesFirstWins(lines, range) ==
    IF lines = <<>> THEN range
    ELSE ParseLoginDefsLine(Head(lines), ParseLoginDefsLinesFirstWins(Tail(lines), range))

regularUserUidRangeFirstWins(file) ==
    LET defaults == <<DEFAULT_MIN_REGULAR_USER_ID, DEFAULT_MAX_REGULAR_USER_ID>>
    IN  IF ~file.readable THEN defaults
        ELSE ParseLoginDefsLinesFirstWins(file.lines, defaults)

\* std::pair<int, int> AccountController::regularUserUidRange() const
regularUserUidRange(file) ==
    LET defaults == <<DEFAULT_MIN_REGULAR_USER_ID, DEFAULT_MAX_REGULAR_USER_ID>>
    IN  IF ~file.readable THEN defaults
        ELSE ParseLoginDefsLines(file.lines, defaults)

\* The minimum uid of regular users the GUI process works with.
regularUserUidMin == regularUserUidRange(loginDefs)[1]

-----------------------------------------------------------------------------
(* Observations on the log of the current invocation *)

\* A call of the guard's constructor failed.
CtorFailed ==
    \E i \in 1..Len(log) :
        /\ ~log[i].ok
        /\ \/ log[i].op = "setgroups"
           \/ log[i].op \in {"setegid", "seteuid"} /\ log[i].arg # 0

\* A call of the guard's destructor failed.
RestoreFailed ==
    \E i \in 1..Len(log) :
        /\ ~log[i].ok
        /\ log[i].op \in {"setegid", "seteuid"} /\ log[i].arg = 0

\* The guard's destructor ran to its end.
GuardExited ==
    \E i \in 1..Len(log) : log[i].op = "seteuid" /\ log[i].arg = 0 /\ log[i].ok

\* The guarded block of the handler was entered.
GuardEntered ==
    \E i \in 1..Len(log) : log[i].op = "seteuid" /\ log[i].arg # 0 /\ log[i].ok

\* The request names an account that getUserInfo accepts, and the lookup worked.
Resolved ==
    /\ \E e \in PasswdDb : e.username = req.text /\ e.uid >= MIN_REGULAR_USER_UID
    /\ \E i \in 1..Len(log) : log[i].op = "getpwnam_r" /\ log[i].ok

\* Home directory of the account the request names.
TargetHome == (CHOOSE e \in PasswdDb : e.username = req.text).homePath

\* The file a handler writes last.
LastFile(a) ==
    CASE a = "createnewuserautostarthook" -> HookFile
      [] a = "setnewuserglobaltheme" -> "kdeglobals"
      [] OTHER -> "kwinrc"

-----------------------------------------------------------------------------
(* Claims *)

\* C1 (as stated): once a handler has returned its reply, Success or Error,
\* the effective uid and the effective gid of the helper are both 0.
C1_RootAfterEveryReply ==
    pc = "replied" => (euid = 0 /\ egid = 0)

\* C2 (as stated): an Error reply means that no filesystem change of the
\* invocation is in place.
C2_ErrorMeansNothingApplied ==
    (pc = "replied" /\ reply.status = "Error")
        => /\ home = before.home
           /\ sddmConf = before.sddmConf
           /\ unitEnabled = before.unitEnabled

\* C2 (amended): after an Error reply the file the handler writes last was not
\* written, the autologin file and the unit are as before, and if the guarded
\* block was never entered nothing under any home changed; directories created
\* and files copied earlier in the block may remain.
C2_ErrorMeansLastStepNotApplied ==
    (pc = "replied" /\ reply.status = "Error")
        => /\ sddmConf = before.sddmConf
           /\ unitEnabled = before.unitEnabled
           /\ ~GuardEntered => home = before.home
           /\ GuardEntered =>
                /\ \A h \in Homes \ {TargetHome} : home[h] = before.home[h]
                /\ home[TargetHome].files[LastFile(req.action)]
                     = before.home[TargetHome].files[LastFile(req.action)]

\* C2 witness: setnewuserdisplayscaling replied Error with kwinoutputconfig.json
\* copied by this call.
C2_Witness ==
    /\ pc = "replied" /\ reply.status = "Error"
    /\ req.action = "setnewuserdisplayscaling"
    /\ GuardEntered
    /\ before.home[TargetHome].files["kwinoutputconfig.json"] = Absent
    /\ home[TargetHome].files["kwinoutputconfig.json"] # Absent

\* C3 (as stated): when the guard has been entered and exited, the effective
\* uid and gid equal the values observed immediately before entry.
C3_GuardRoundTrip ==
    (pc = "return" /\ GuardExited)
        => \A i \in 1..Len(log) :
               log[i].op = "setgroups" => (euid = log[i].euid /\ egid = log[i].egid)

\* C4: once a call of the guard's destructor has failed the process is
\* terminated, no reply exists, and no further step is taken.
C4_RestoreFailureTerminates ==
    /\ [](RestoreFailed => (~alive /\ pc = "terminated" /\ reply = NoReply))
    /\ [][~RestoreFailed]_vars

\* C4 witness: the process was terminated with an effective uid that is not 0.
C4_Witness ==
    RestoreFailed /\ ~alive /\ euid # 0

\* C5: when a call of the guard's constructor fails, the handler returns an
\* Error reply, nothing under any home has changed, and the process lives.
C5_DropFailureAbortsActionOnly ==
    CtorFailed
        => /\ alive
           /\ pc \in {"return", "replied"}
           /\ home = before.home
           /\ pending.status = "Error"
           /\ pc = "replied" => reply.status = "Error"

\* C5 witness: an Error reply after seteuid failed with the gid already changed.
C5_Witness ==
    pc = "replied" /\ CtorFailed /\ egid # 0 /\ reply.status = "Error"

GuardedPcs == {"hook_mkpath", "hook_open", "theme_mkpath", "theme_copy",
               "scaling_mkpath", "scaling_copy", "dtor_setegid", "dtor_seteuid"}

\* C6: at most one guard is live; a guard is live only inside a guarded block
\* (or in a terminated process), never when an action starts or a guard is entered.
C6_AtMostOneGuard ==
    /\ guards \in {0, 1}
    /\ guards = 1 => pc \in GuardedPcs \cup {"terminated"}
    /\ pc \in {"idle", "args", "ctor_setgroups", "ctor_setegid", "ctor_seteuid"}
         => guards = 0

\* C6 witness: the guard is live during the second copy of setnewuserdisplayscaling.
C6_Witness ==
    guards = 1 /\ pc = "scaling_copy" /\ idx = 2

\* C7 (as stated): getUserInfo never yields an identity whose uid is below the
\* configured UID_MIN.
C7_NeverBelowConfiguredMin ==
    userInfo # NoUser => userInfo.uid >= regularUserUidMin

C9_ScalingSucceedsFromAnyHome ==
    (/\ pc = "replied" /\ req.action = "setnewuserdisplayscaling"
     /\ Resolved
     /\ \A k \in 1..Len(filesToCopy) : src[filesToCopy[k]] # Absent
     /\ \A i \in 1..Len(log) :
            \/ log[i].ok
            \/ /\ log[i].op = "copy"
               /\ before.home[TargetHome].files[log[i].arg] # Absent)
        => /\ reply.status = "Success"
           /\ \A k \in 1..Len(filesToCopy) :
                  home[TargetHome].files[filesToCopy[k]] = src[filesToCopy[k]]
           /\ euid = 0

ToolOps == {"useradd", "usermod", "chpasswd"}

\* C10: a createuser request carries the GUI's username and password as they
\* are; when the username fails validation or the password is empty no
\* external tool is invoked, no account is created and the reply is Error.
C10_CreateUserValidatesFirst ==
    req.action = "createuser"
        => /\ req.text = m_username /\ req.password = m_password
           /\ (validateUsername(req.text) # "Valid" \/ req.password = <<>>)
                => /\ \A i \in 1..Len(log) : log[i].op \notin ToolOps
                   /\ accounts = before.accounts
                   /\ pc \in {"cu_validate", "return", "replied"}
                   /\ pc = "replied" => reply.status = "Error"

\* C10 witness: a username with invalid characters reached the helper with a
\* non-empty password and was answered with Error.
C10_Witness ==
    /\ pc = "replied" /\ req.action = "createuser"
    /\ validateUsername(req.text) = "InvalidCharacters"
    /\ req.password # <<>>
    /\ reply.status = "Error"

\* C11: removeautologin answers Success without any call when the autologin file
\* is absent; Success leaves the file absent; Error occurs only with a file that
\* existed and could not be removed, and the file is then as before; a Success
\* hands the next request a state without the file, so repeating it succeeds.
C11_RemoveAutologinIdempotent ==
    /\ []((pc = "replied" /\ req.action = "removeautologin")
            => /\ reply.status \in {"Success", "Error"}
               /\ home = before.home /\ unitEnabled = before.unitEnabled
               /\ before.sddmConf = Absent
                    => (reply = SuccessReply /\ sddmConf = Absent /\ log = <<>>)
               /\ reply.status = "Success" => sddmConf = Absent
               /\ reply.status = "Error"
                    => /\ before.sddmConf # Absent
                       /\ sddmConf = before.sddmConf
                       /\ \E i \in 1..Len(log) : log[i].op = "remove" /\ ~log[i].ok)
    /\ [][(pc = "replied" /\ req.action = "removeautologin"
             /\ reply.status = "Success" /\ pc' = "idle")
            => before'.sddmConf = Absent]_vars

\* C11 witness: an existing autologin file was removed and Success returned.
C11_Witness ==
    /\ pc = "replied" /\ req.action = "removeautologin"
    /\ before.sddmConf # Absent /\ sddmConf = Absent
    /\ reply = SuccessReply

\* C13: setnewusertempautologin opens the autologin file only after a lookup
\* that found a user with uid of at least MIN_REGULAR_USER_UID; on Success the
\* file is [Autologin], User=<name>, Session=plasma, Relogin=true; for an unknown
\* or system user the reply is Error and the file is as before.
C13_TempAutologinAfterResolution ==
    req.action = "setnewusertempautologin"
        => /\ \A i \in 1..Len(log) :
                log[i].op = "open_write"
                    => /\ \E j \in 1..(i - 1) : log[j].op = "getpwnam_r" /\ log[j].ok
                       /\ \E e \in PasswdDb :
                            e.username = req.text /\ e.uid >= MIN_REGULAR_USER_UID
           /\ (pc = "replied" /\ reply.status = "Success")
                => sddmConf = <<"[Autologin]", "User=", req.text,
                                "Session=plasma", "Relogin=true">>
           /\ (pc = "replied"
               /\ \A e \in PasswdDb :
                      e.username = req.text => e.uid < MIN_REGULAR_USER_UID)
                => (reply.status = "Error" /\ sddmConf = before.sddmConf)

\* C13 witness: the descriptor for alice replaced the one written at boot.
C13_Witness ==
    /\ pc = "replied" /\ req.action = "setnewusertempautologin"
    /\ reply = SuccessReply /\ req.text = UserAlice
    /\ before.sddmConf = BootAutologin /\ sddmConf # before.sddmConf

\* C12 (as stated, for runs in which the call does not fail for another reason):
\* with the unit already disabled or its unit file missing, disablesystemdunit
\* replies Success.
C12_DisableUnitAbsenceIsSuccess ==
    (/\ pc = "replied" /\ req.action = "disablesystemdunit"
     /\ ~before.unitEnabled
     /\ unitFile => \A i \in 1..Len(log) : log[i].ok)
        => reply = SuccessReply

-----------------------------------------------------------------------------
(* InitialStartUtil (GUI process): construction and finish() *)

\* Everything the helper's handlers work on; the GUI's own steps leave it alone.
helperVars == <<procVars, fsVars, pc, req, reply, userInfo, tempFiles, pending,
                idx, log, accounts, before, unitFile, loginDefs>>

\* A KAuth job the GUI ran to its end: the action, its username argument and
\* what job->exec() returned.
Job(action, username, ok) == [action |-> action, username |-> username, ok |-> ok]

\* The helper at rest, in one fixed environment.
HelperAtRest ==
    /\ alive = TRUE /\ euid = 0 /\ egid = 0 /\ suppGroups = TRUE /\ guards = 0
    /\ pc = "idle" /\ req = NoReq /\ reply = NoReply /\ userInfo = NoUser
    /\ tempFiles = NoTemp /\ pending = NoReply /\ idx = 1 /\ log = <<>>
    /\ home = [h \in Homes |-> FreshHome]
    /\ sddmConf = BootAutologin
    /\ src = [f \in ConfigFiles |-> SrcBytes(f)]
    /\ unitFile = TRUE /\ unitEnabled = TRUE
    /\ accounts = {}
    /\ before = Snapshot

\* The wizard right after AccountController was constructed, before
\* InitialStartUtil's constructor body runs.
FinishInit ==
    /\ HelperAtRest
    /\ loginDefs \in LoginDefsChoices
    /\ m_username = <<>> /\ m_password = <<>>
    /\ passwdEntries = NoPasswd
    /\ uidRange = <<DEFAULT_MIN_REGULAR_USER_ID, DEFAULT_MAX_REGULAR_USER_ID>>
    /\ m_hasExistingUsers \in BOOLEAN
    /\ guiPc = "constructing"
    /\ requests = <<>>
    /\ m_hostname = <<>> /\ hostCheck = NoCheck /\ hostCall = NoCall
    /\ PagesIdle

\* InitialStartUtil::InitialStartUtil -> disablePlasmaSetupAutologin()
disablePlasmaSetupAutologin(ok) ==
    /\ guiPc = "constructing"
    /\ requests' = Append(requests, Job("removeautologin", <<>>, ok))
    /\ guiPc' = "ready"
    /\ UNCHANGED <<helperVars, guiVars, passwdEntries, uidRange, m_hasExistingUsers,
                   m_hostname, hostCheck, hostCall, pageVars>>

\* The account page edits the controller's properties while the wizard is shown.
EditAccount ==
    /\ guiPc = "ready"
    /\ \/ \E u \in RawUsernames : setUsername(u)
       \/ \E p \in RawPasswords : setPassword(p)

\* void InitialStartUtil::finish(), entered
finish ==
    /\ guiPc = "ready"
    /\ guiPc' = "doUserCreationSteps"
    /\ UNCHANGED <<helperVars, guiVars, passwdEntries, uidRange, m_hasExistingUsers,
                   requests, m_hostname, hostCheck, hostCall, pageVars>>

\* doUserCreationSteps going on to the display settings whatever createUser returned.
doUserCreationStepsIgnoringFailure(userCreated) ==
    /\ guiPc = "doUserCreationSteps"
    /\ IF m_hasExistingUsers
       THEN /\ guiPc' = "createCompletionFlag"
            /\ UNCHANGED requests
       ELSE /\ requests' = Append(requests, Job("createuser", m_username, userCreated))
            /\ guiPc' = "setGlobalThemeForNewUser"
    /\ UNCHANGED <<helperVars, guiVars, passwdEntries, uidRange, m_hasExistingUsers,
                   m_hostname, hostCheck, hostCall, pageVars>>

\* void InitialStartUtil::doUserCreationSteps(), up to the test of userCreated;
\* userCreated is what AccountController::createUser() returned.
doUserCreationSteps(userCreated) ==
    /\ guiPc = "doUserCreationSteps"
    /\ IF m_hasExistingUsers
       THEN /\ guiPc' = "createCompletionFlag"
            /\ UNCHANGED requests
       ELSE /\ requests' = Append(requests, Job("createuser", m_username, userCreated))
            /\ guiPc' = IF userCreated THEN "setGlobalThemeForNewUser"
                        ELSE "createCompletionFlag"
    /\ UNCHANGED <<helperVars, guiVars, passwdEntries, uidRange, m_hasExistingUsers,
                   m_hostname, hostCheck, hostCall, pageVars>>

\* DisplayUtil::setGlobalThemeForNewUser: the job's result is only logged.
setGlobalThemeForNewUser(ok) ==
    /\ guiPc = "setGlobalThemeForNewUser"
    /\ requests' = Append(requests, Job("setnewuserglobaltheme", m_username, ok))
    /\ guiPc' = "setScalingForNewUser"
    /\ UNCHANGED <<helperVars, guiVars, passwdEntries, uidRange, m_hasExistingUsers,
                   m_hostname, hostCheck, hostCall, pageVars>>

\* DisplayUtil::setScalingForNewUser: the job's result is only logged.
setScalingForNewUser(ok) ==
    /\ guiPc = "setScalingForNewUser"
    /\ requests' = Append(requests, Job("setnewuserdisplayscaling", m_username, ok))
    /\ guiPc' = "createCompletionFlag"
    /\ UNCHANGED <<helperVars, guiVars, passwdEntries, uidRange, m_hasExistingUsers,
                   m_hostname, hostCheck, hostCall, pageVars>>

\* void InitialStartUtil::createCompletionFlag(): the job's result is only logged.
createCompletionFlag(ok) ==
    /\ guiPc = "createCompletionFlag"
    /\ requests' = Append(requests, Job("createflagfile", <<>>, ok))
    /\ guiPc' = "logOut"
    /\ UNCHANGED <<helperVars, guiVars, passwdEntries, uidRange, m_hasExistingUsers,
                   m_hostname, hostCheck, hostCall, pageVars>>

\* void InitialStartUtil::logOut()
logOut ==
    /\ guiPc = "logOut"
    /\ guiPc' = "loggedOut"
    /\ UNCHANGED <<helperVars, guiVars, passwdEntries, uidRange, m_hasExistingUsers,
                   requests, m_hostname, hostCheck, hostCall, pageVars>>

FinishNext ==
    \/ \E ok \in BOOLEAN : disablePlasmaSetupAutologin(ok)
    \/ EditAccount
    \/ finish
    \/ \E userCreated \in BOOLEAN : doUserCreationSteps(userCreated)
    \/ \E ok \in BOOLEAN : setGlobalThemeForNewUser(ok)
    \/ \E ok \in BOOLEAN : setScalingForNewUser(ok)
    \/ \E ok \in BOOLEAN : createCompletionFlag(ok)
    \/ logOut

FinishSpec == FinishInit /\ [][FinishNext]_vars

\* The jobs of finish() that set the new account up.
SetupSteps == {"createuser", "setnewuserglobaltheme", "setnewuserdisplayscaling"}

\* C14 (as stated): createflagfile is requested only in a run of finish() whose
\* setup steps succeeded, and never after createUser() returned false.
C14_FlagOnlyAfterSuccessfulSetup ==
    \A i \in 1..Len(requests) :
        requests[i].action = "createflagfile"
            => \A j \in 1..(i - 1) :
                   requests[j].action \in SetupSteps => requests[j].ok

-----------------------------------------------------------------------------
(* AccountController::initializeExistingUserFlag (GUI process, at construction) *)

MaxLines == 2
MaxEntries == 2

SeqsUpTo(S, n) == UNION {[1..k -> S] : k \in 0..n}

\* Lines a login-definitions file is made of here.
LoginDefsLines ==
    { <<>>,
      <<"#", " ">> \o KeyUidMin \o <<" ", "5", "0", "0">>,
      KeyUidMin \o <<" ", "5", "0", "0">>,
      <<" ">> \o KeyUidMin \o <<"\t", " ", "6", "0", "0", "0", "0", " ">>,
      KeyUidMin \o <<" ", "a", "b", "c">>,
      KeyUidMin \o <<" ", "-", "5">>,
      KeyUidMax \o <<" ", "6", "0", "0", "0", "0">>,
      KeyUidMax \o <<" ", "5", "0", "0">>,
      KeyUidMax \o <<" ", "7", "0", "0", "0", "0", " ", "#", "x">>,
      KeyUidMax \o <<" ", "6", "x">> }

LoginDefsFiles ==
    {LoginDefsFile(FALSE, <<>>)}
        \cup {LoginDefsFile(TRUE, lines) : lines \in SeqsUpTo(LoginDefsLines, MaxLines)}

\* Uids of account-database entries.
PasswdUids == {499, 500, 60000, 60001, 65536}

\* Account databases: the entries, and how many of them getpwent() hands out
\* before it returns NULL (fewer than all when the enumeration fails).
PasswdChoices ==
    UNION { {[uids |-> u, served |-> k] : k \in 0..Len(u)}
            : u \in SeqsUpTo(PasswdUids, MaxEntries) }

Min(a, b) == IF a <= b THEN a ELSE b
Max(a, b) == IF a >= b THEN a ELSE b

\* bool AccountController::detectExistingUsers(std::pair<int, int> uidRange) const
detectExistingUsers(range, entries) ==
    LET uidMin == Max(range[1], MINIMUM_USER_ID)
        uidMax == Min(range[2], MAXIMUM_USER_ID)
    IN  \E i \in 1..entries.served :
            entries.uids[i] >= uidMin /\ entries.uids[i] <= uidMax

\* The GUI process as AccountController's constructor starts.
UidInit ==
    /\ HelperAtRest
    /\ loginDefs \in LoginDefsFiles
    /\ passwdEntries \in PasswdChoices
    /\ m_username = <<>> /\ m_password = <<>>
    /\ uidRange = <<DEFAULT_MIN_REGULAR_USER_ID, DEFAULT_MAX_REGULAR_USER_ID>>
    /\ m_hasExistingUsers = FALSE
    /\ guiPc = "initializeExistingUserFlag"
    /\ requests = <<>>
    /\ m_hostname = <<>> /\ hostCheck = NoCheck /\ hostCall = NoCall
    /\ PagesIdle

\* bool AccountController::isAccountCreationOverrideEnabled(); override is
\* whether PLASMA_SETUP_USER_CREATION_OVERRIDE is set to a non-zero number.
isAccountCreationOverrideEnabled(override) ==
    /\ guiPc = "initializeExistingUserFlag"
    /\ IF override
       THEN /\ m_hasExistingUsers' = FALSE
            /\ guiPc' = "overridden"
       ELSE /\ guiPc' = "regularUserUidRange"
            /\ UNCHANGED m_hasExistingUsers
    /\ UNCHANGED <<helperVars, guiVars, passwdEntries, uidRange, requests,
                   m_hostname, hostCheck, hostCall, pageVars>>

\* initializeExistingUserFlag: const std::pair<int, int> uidRange = regularUserUidRange();
CallRegularUserUidRange ==
    /\ guiPc = "regularUserUidRange"
    /\ uidRange' = regularUserUidRange(loginDefs)
    /\ guiPc' = "detectExistingUsers"
    /\ UNCHANGED <<helperVars, guiVars, passwdEntries, m_hasExistingUsers, requests,
                   m_hostname, hostCheck, hostCall, pageVars>>

\* initializeExistingUserFlag: detectExistingUsers(uidRange) and the flag's update
CallDetectExistingUsers ==
    /\ guiPc = "detectExistingUsers"
    /\ m_hasExistingUsers' = IF detectExistingUsers(uidRange, passwdEntries)
                             THEN TRUE ELSE m_hasExistingUsers
    /\ guiPc' = "detected"
    /\ UNCHANGED <<helperVars, guiVars, passwdEntries, uidRange, requests,
                   m_hostname, hostCheck, hostCall, pageVars>>

UidNext ==
    \/ \E override \in BOOLEAN : isAccountCreationOverrideEnabled(override)
    \/ CallRegularUserUidRange
    \/ CallDetectExistingUsers

UidSpec == UidInit /\ [][UidNext]_vars

\* C15 (as stated): the existing-user flag is true exactly when some entry of the
\* account database has its uid in [min(uidRange), max(uidRange)] clipped to
\* [0, 65535], for every configured pair and every enumeration.
C15_ExistingUserIffUidInRange ==
    guiPc = "detected"
        => (m_hasExistingUsers
              <=> \E i \in 1..Len(passwdEntries.uids) :
                     /\ passwdEntries.uids[i] >= Max(Min(uidRange[1], uidRange[2]), 0)
                     /\ passwdEntries.uids[i] <= Min(Max(uidRange[1], uidRange[2]), 65535))

\* A line that sets the key: not blank, not a comment, the key first and at
\* least one more token.
IsKeyLine(line, key) ==
    LET t == trimmed(line)
        tokens == splitWhitespace(t, <<>>, <<>>)
    IN  t # <<>> /\ t[1] # "#" /\ Len(tokens) >= 2 /\ tokens[1] = key

LineValue(line) == toInt(splitWhitespace(trimmed(line), <<>>, <<>>)[2])
IsWellFormed(line) == LineValue(line).ok /\ LineValue(line).value >= 0

\* The value the last line of the key gives, the default when the file cannot be
\* read, has no line of the key, or that line is malformed.
LastLineDecides(file, key, default) ==
    LET at == {i \in 1..Len(file.lines) : IsKeyLine(file.lines[i], key)}
        last == CHOOSE i \in at : \A j \in at : j <= i
    IN  IF ~file.readable \/ at = {} THEN default
        ELSE IF IsWellFormed(file.lines[last]) THEN LineValue(file.lines[last]).value
        ELSE default

\* The value of the last well-formed line of the key, the default when the file
\* cannot be read or has no such line.
LastWellFormedDecides(file, key, default) ==
    LET at == {i \in 1..Len(file.lines) :
                   IsKeyLine(file.lines[i], key) /\ IsWellFormed(file.lines[i])}
        last == CHOOSE i \in at : \A j \in at : j <= i
    IN  IF ~file.readable \/ at = {} THEN default
        ELSE LineValue(file.lines[last]).value

\* C16 (as stated): each key of the range is its last line's value, and the
\* default, 1000 or 65000, when the key is missing or that value is malformed,
\* also when a valid line of the key came before the malformed one.
C16_MalformedFallsBackToDefault ==
    guiPc \in {"detectExistingUsers", "detected"}
        => uidRange = << LastLineDecides(loginDefs, KeyUidMin, 1000),
                         LastLineDecides(loginDefs, KeyUidMax, 65000) >>

\* C16 (amended): each key of the range is the value of the last well-formed
\* line of that key, whatever the other key's lines are; malformed lines are
\* skipped; with no well-formed line, or an unopenable file, it is the default.
C16_LastWellFormedLineWins ==
    guiPc \in {"detectExistingUsers", "detected"}
        => uidRange = << LastWellFormedDecides(loginDefs, KeyUidMin, 1000),
                         LastWellFormedDecides(loginDefs, KeyUidMax, 65000) >>

\* C16 witness: UID_MIN 500 followed by UID_MIN abc was read as 500.
C16_Witness ==
    /\ guiPc = "detected"
    /\ loginDefs = LoginDefsFile(TRUE, << KeyUidMin \o <<" ", "5", "0", "0">>,
                                          KeyUidMin \o <<" ", "a", "b", "c">> >>)
    /\ uidRange = <<500, 65000>>

\* C17 (as stated): a username the validator accepts is itself, as entered,
\* non-empty, at most 32 characters long and of the form
\* ^[A-Za-z_][A-Za-z0-9_.-]*$; a rejected one gets exactly one of Empty, TooLong,
\* InvalidCharacters.
C17_AcceptedUsernameIsWellFormed ==
    LET s == m_username
        outcome == validateUsername(s)
    IN  /\ outcome \in {"Valid", "Empty", "TooLong", "InvalidCharacters"}
        /\ isUsernameValid(s) <=> outcome = "Valid"
        /\ outcome = "Valid"
             => /\ s # <<>>
                /\ Len(s) <= 32
                /\ s[1] \in Letters \cup {"_"}
                /\ \A i \in 2..Len(s) : s[i] \in Letters \cup Digits \cup {"_", ".", "-"}

-----------------------------------------------------------------------------
(* HostnameUtil (GUI process) and the hostname page *)

MAX_HOSTNAME_LENGTH == 253
MAX_LABEL_LENGTH == 63

Localhost == <<"l", "o", "c", "a", "l", "h", "o", "s", "t">>
Localdomain == <<"l", "o", "c", "a", "l", "d", "o", "m", "a", "i", "n">>
DISALLOWED_HOSTNAMES == <<Localhost, Localhost \o <<".">> \o Localdomain>>

UpperSeq == <<"A", "B", "C", "D", "E", "F", "G", "H", "I", "J", "K", "L", "M",
              "N", "O", "P", "Q", "R", "S", "T", "U", "V", "W", "X", "Y", "Z">>
LowerSeq == <<"a", "b", "c", "d", "e", "f", "g", "h", "i", "j", "k", "l", "m",
              "n", "o", "p", "q", "r", "s", "t", "u", "v", "w", "x", "y", "z">>

\* Case folding of one character, as Qt::CaseInsensitive compares.
foldCase(c) ==
    IF \E n \in 1..Len(UpperSeq) : UpperSeq[n] = c
    THEN LowerSeq[CHOOSE n \in 1..Len(UpperSeq) : UpperSeq[n] = c]
    ELSE c

\* QString::compare(other, Qt::CaseInsensitive) == 0
equalsIgnoringCase(a, b) ==
    Len(a) = Len(b) /\ \A i \in 1..Len(a) : foldCase(a[i]) = foldCase(b[i])

\* bool isDisallowedHostname(const QString &hostname)
isDisallowedHostname(hostname) ==
    \E n \in 1..Len(DISALLOWED_HOSTNAMES) :
        equalsIgnoringCase(trimmed(hostname), DISALLOWED_HOSTNAMES[n])

\* QString::split(u'.'), empty parts kept: the stretches between the dots.
splitOnDot(s) ==
    LET dots == {i \in 1..Len(s) : s[i] = "."}
        dot(k) == IF k = 0 THEN 0
                  ELSE IF k > Cardinality(dots) THEN Len(s) + 1
                  ELSE CHOOSE d \in dots : Cardinality({e \in dots : e < d}) = k - 1
    IN  [k \in 1..(Cardinality(dots) + 1) |-> SubSeq(s, dot(k - 1) + 1, dot(k) - 1)]

\* [A-Za-z0-9](?:[A-Za-z0-9-]*[A-Za-z0-9])? over the whole of s
hostnameLabelBody(s) ==
    /\ s # <<>>
    /\ s[1] \in Letters \cup Digits
    /\ s[Len(s)] \in Letters \cup Digits
    /\ \A i \in 1..Len(s) : s[i] \in Letters \cup Digits \cup {"-"}

\* VALID_HOSTNAME_REGEX.match(label).hasMatch(): the pattern's $ also matches
\* just before a line feed that ends the subject.
VALID_HOSTNAME_REGEX(label) ==
    \/ hostnameLabelBody(label)
    \/ /\ Len(label) >= 2
       /\ label[Len(label)] = "\n"
       /\ hostnameLabelBody(SubSeq(label, 1, Len(label) - 1))

\* The loop of validateHostname over the labels: the first label that fails
\* decides, by its first failing check.
RECURSIVE validateLabels(_)
validateLabels(labels) ==
    IF labels = <<>> THEN "Valid"
    ELSE LET label == Head(labels)
         IN  IF label = <<>> THEN "EmptyLabel"
             ELSE IF Len(label) > MAX_LABEL_LENGTH THEN "LabelTooLong"
             ELSE IF ~VALID_HOSTNAME_REGEX(label) THEN "InvalidCharacters"
             ELSE validateLabels(Tail(labels))

\* validateHostname without the check for consecutive dots.
validateHostnameNoConsecutiveDotsCheck(hostname) ==
    LET t == trimmed(hostname)
    IN  IF t = <<>> THEN "Empty"
        ELSE IF isDisallowedHostname(t) THEN "Disallowed"
        ELSE IF Len(t) > MAX_HOSTNAME_LENGTH THEN "TooLong"
        ELSE IF t[1] = "." THEN "LeadingDot"
        ELSE IF t[Len(t)] = "." THEN "TrailingDot"
        ELSE validateLabels(splitOnDot(t))

\* validateHostname looking for consecutive dots before the other dot checks.
validateHostnameDotsFirst(hostname) ==
    LET t == trimmed(hostname)
    IN  IF t = <<>> THEN "Empty"
        ELSE IF isDisallowedHostname(t) THEN "Disallowed"
        ELSE IF Len(t) > MAX_HOSTNAME_LENGTH THEN "TooLong"
        ELSE IF \E i \in 1..(Len(t) - 1) : t[i] = "." /\ t[i + 1] = "."
             THEN "ConsecutiveDots"
        ELSE IF t[1] = "." THEN "LeadingDot"
        ELSE IF t[Len(t)] = "." THEN "TrailingDot"
        ELSE validateLabels(splitOnDot(t))

\* HostnameValidationResult validateHostname(const QString &hostname)
validateHostname(hostname) ==
    LET t == trimmed(hostname)
    IN  IF t = <<>> THEN "Empty"
        ELSE IF isDisallowedHostname(t) THEN "Disallowed"
        ELSE IF Len(t) > MAX_HOSTNAME_LENGTH THEN "TooLong"
        ELSE IF t[1] = "." THEN "LeadingDot"
        ELSE IF t[Len(t)] = "." THEN "TrailingDot"
        ELSE IF \E i \in 1..(Len(t) - 1) : t[i] = "." /\ t[i + 1] = "."
             THEN "ConsecutiveDots"
        ELSE validateLabels(splitOnDot(t))

\* QString hostnameValidationMessageForResult(HostnameValidationResult result)
hostnameValidationMessageForResult(result) ==
    CASE result = "Valid" -> ""
      [] result = "Empty" -> "Hostname cannot be empty."
      [] result = "Disallowed" ->
           "Hostname cannot be \"localhost\" or \"localhost.localdomain\"."
      [] result = "TooLong" -> "Hostname is too long (maximum 253 characters)."
      [] result = "LeadingDot" -> "Hostname cannot start with a dot."
      [] result = "TrailingDot" -> "Hostname cannot end with a dot."
      [] result = "ConsecutiveDots" -> "Hostname cannot contain consecutive dots."
      [] result = "EmptyLabel" -> "Hostname labels cannot be empty."
      [] result = "LabelTooLong" ->
           "Each hostname label must be at most 63 characters."
      [] result = "InvalidCharacters" ->
           "Hostnames may contain letters, numbers, and hyphens. Each label must start and end with a letter or number."
      [] OTHER -> ""

\* bool HostnameUtil::isHostnameValid(const QString &hostname) const
isHostnameValid(hostname) == validateHostname(trimmed(hostname)) = "Valid"

\* QString HostnameUtil::hostnameValidationMessage(const QString &hostname) const
hostnameValidationMessage(hostname) ==
    hostnameValidationMessageForResult(validateHostname(trimmed(hostname)))

ValidHost == <<"v", "a", "l", "i", "d", "-", "h", "o", "s", "t">>
LongLabel == Repeat("a", MAX_LABEL_LENGTH)

\* Texts the hostname field can hold.
RawHostnames ==
    { <<>>,
      <<" ">>,
      Localhost,
      <<"L", "o", "c", "a", "l", "H", "o", "s", "t">>,
      <<" ">> \o Localhost,
      Localhost \o <<".">> \o Localdomain,
      LongLabel \o <<".">> \o LongLabel \o <<".">> \o LongLabel \o <<".">>
          \o Repeat("b", MAX_HOSTNAME_LENGTH - 3 * (MAX_LABEL_LENGTH + 1)),
      LongLabel \o <<".">> \o LongLabel \o <<".">> \o LongLabel \o <<".">>
          \o Repeat("b", MAX_HOSTNAME_LENGTH - 3 * (MAX_LABEL_LENGTH + 1) + 1),
      Repeat(".", MAX_HOSTNAME_LENGTH + 1),
      <<".", "a">>,
      <<"a", ".">>,
      <<".", ".", "a">>,
      <<"a", ".", ".">>,
      <<"a", ".", ".", "b">>,
      <<"-", "b", "a", "d", "s", "t", "a", "r", "t">>,
      <<"b", "a", "d", "e", "n", "d", "-">>,
      <<"a", "_", "b">>,
      ValidHost,
      <<" ">> \o ValidHost \o <<" ">>,
      <<"a", ".", "b">>,
      <<"a", "-", "1", ".", "B", "2">>,
      LongLabel,
      LongLabel \o <<"a">>,
      <<"a", "-", ".">> \o LongLabel \o <<"a">>,
      LongLabel \o <<"a", ".", "-", "b">>,
      <<"a", "\n", ".", "b">> }

\* What loadHostname leaves in m_hostname: the system's name, trimmed.
LoadedHostnames == {<<>>, Localhost, ValidHost}

\* HostnameUtil::HostnameUtil(QObject *parent), after loadHostname()
HostnameInit ==
    /\ HelperAtRest
    /\ loginDefs \in LoginDefsChoices
    /\ passwdEntries = NoPasswd
    /\ m_username = <<>> /\ m_password = <<>>
    /\ uidRange = <<DEFAULT_MIN_REGULAR_USER_ID, DEFAULT_MAX_REGULAR_USER_ID>>
    /\ m_hasExistingUsers = FALSE
    /\ guiPc = "ready"
    /\ requests = <<>>
    /\ m_hostname \in LoadedHostnames
    /\ hostCheck = NoCheck /\ hostCall = NoCall
    /\ PagesIdle

\* function updateValidation() of the hostname page; result is the outcome
\* validateHostname computes inside isHostnameValid and hostnameValidationMessage.
updateValidation(text) ==
    /\ guiPc = "ready"
    /\ hostCheck' = [input |-> text,
                     result |-> validateHostname(trimmed(text)),
                     message |-> hostnameValidationMessage(text)]
    /\ UNCHANGED <<helperVars, guiVars, passwdEntries, uidRange, m_hasExistingUsers,
                   guiPc, requests, m_hostname, hostCall, pageVars>>

\* void HostnameUtil::setHostnameOnSystem(const QString &hostname): the calls
\* made on org.freedesktop.hostname1, in order.
setHostnameOnSystem(hostname) ==
    << [method |-> "SetStaticHostname", hostname |-> hostname],
       [method |-> "SetHostname", hostname |-> hostname] >>

\* setHostname storing whatever it is given, without validating it.
setHostnameUnchecked(hostname) ==
    /\ guiPc = "ready"
    /\ LET t == trimmed(hostname)
       IN  IF t = m_hostname
           THEN /\ hostCall' = [input |-> hostname, was |-> m_hostname,
                                emitted |-> 0, sent |-> <<>>]
                /\ UNCHANGED m_hostname
           ELSE /\ m_hostname' = t
                /\ hostCall' = [input |-> hostname, was |-> m_hostname,
                                emitted |-> 1, sent |-> setHostnameOnSystem(t)]
    /\ UNCHANGED <<helperVars, guiVars, passwdEntries, uidRange, m_hasExistingUsers,
                   guiPc, requests, hostCheck, pageVars>>

\* void HostnameUtil::setHostname(const QString &hostname); hostCall records
\* the call: its argument, m_hostname at entry, how often hostnameChanged was
\* emitted and the D-Bus calls made.
setHostname(hostname) ==
    /\ guiPc = "ready"
    /\ LET t == trimmed(hostname)
       IN  IF t = m_hostname \/ validateHostname(t) # "Valid"
           THEN /\ hostCall' = [input |-> hostname, was |-> m_hostname,
                                emitted |-> 0, sent |-> <<>>]
                /\ UNCHANGED m_hostname
           ELSE /\ m_hostname' = t
                /\ hostCall' = [input |-> hostname, was |-> m_hostname,
                                emitted |-> 1, sent |-> setHostnameOnSystem(t)]
    /\ UNCHANGED <<helperVars, guiVars, passwdEntries, uidRange, m_hasExistingUsers,
                   guiPc, requests, hostCheck, pageVars>>

HostnameNext ==
    \/ \E text \in RawHostnames : updateValidation(text)
    \/ \E hostname \in RawHostnames : setHostname(hostname)

HostnameSpec == HostnameInit /\ [][HostnameNext]_vars

\* C18: whenever the validator accepts a text, the text as given consists of
\* dot-separated labels of 1 to 63 characters, each starting and ending with a
\* letter or digit and holding only letters, digits and hyphens; it is at most
\* 253 characters long and is neither "localhost" nor "localhost.localdomain"
\* in any letter case.
C18_AcceptedHostnameIsWellFormed ==
    (hostCheck # NoCheck /\ hostCheck.result = "Valid") =>
        LET s == hostCheck.input
            labels == splitOnDot(s)
        IN  /\ Len(s) <= MAX_HOSTNAME_LENGTH
            /\ \A n \in 1..Len(labels) :
                   /\ Len(labels[n]) \in 1..MAX_LABEL_LENGTH
                   /\ labels[n][1] \in Letters \cup Digits
                   /\ labels[n][Len(labels[n])] \in Letters \cup Digits
                   /\ \A i \in 1..Len(labels[n]) :
                          labels[n][i] \in Letters \cup Digits \cup {"-"}
            /\ \A n \in 1..Len(DISALLOWED_HOSTNAMES) :
                   ~equalsIgnoringCase(s, DISALLOWED_HOSTNAMES[n])

\* The outcome of the first failing entry of a list of checks, "Valid" if none fails.
FirstFailing(checks) ==
    IF \E i \in 1..Len(checks) : checks[i].fails
    THEN checks[CHOOSE i \in 1..Len(checks) :
                    /\ checks[i].fails
                    /\ \A j \in 1..(i - 1) : ~checks[j].fails].outcome
    ELSE "Valid"

\* The checks on the whole (trimmed) hostname, in the documented order.
WholeNameChecks(t) ==
    << [outcome |-> "Empty", fails |-> t = <<>>],
       [outcome |-> "Disallowed",
        fails |-> \E n \in 1..Len(DISALLOWED_HOSTNAMES) :
                      equalsIgnoringCase(t, DISALLOWED_HOSTNAMES[n])],
       [outcome |-> "TooLong", fails |-> Len(t) > MAX_HOSTNAME_LENGTH],
       [outcome |-> "LeadingDot", fails |-> t # <<>> /\ t[1] = "."],
       [outcome |-> "TrailingDot", fails |-> t # <<>> /\ t[Len(t)] = "."],
       [outcome |-> "ConsecutiveDots",
        fails |-> \E i \in 1..(Len(t) - 1) : t[i] = "." /\ t[i + 1] = "."] >>

\* The checks on one label, in the documented order.
LabelChecks(label) ==
    << [outcome |-> "EmptyLabel", fails |-> label = <<>>],
       [outcome |-> "LabelTooLong", fails |-> Len(label) > MAX_LABEL_LENGTH],
       [outcome |-> "InvalidCharacters", fails |-> ~VALID_HOSTNAME_REGEX(label)] >>

\* The outcome of the first failing check over the whole name, then label by label.
FirstFailingCheck(t) ==
    LET labels == splitOnDot(t)
        bad == {n \in 1..Len(labels) : FirstFailing(LabelChecks(labels[n])) # "Valid"}
    IN  IF FirstFailing(WholeNameChecks(t)) # "Valid"
        THEN FirstFailing(WholeNameChecks(t))
        ELSE IF bad = {} THEN "Valid"
        ELSE FirstFailing(LabelChecks(labels[CHOOSE n \in bad : \A k \in bad : n <= k]))

HostnameOutcomes ==
    {"Valid", "Empty", "Disallowed", "TooLong", "LeadingDot", "TrailingDot",
     "ConsecutiveDots", "EmptyLabel", "LabelTooLong", "InvalidCharacters"}

\* C19: every validation yields the outcome of the first failing check, in
\* the order Empty, Disallowed, TooLong, LeadingDot, TrailingDot,
\* ConsecutiveDots, then label by label EmptyLabel, LabelTooLong,
\* InvalidCharacters, and Valid if none fails; "-badstart" is
\* InvalidCharacters, "a..b" ConsecutiveDots, "" Empty and "valid-host" Valid.
\* The message shown is the outcome's own message, different outcomes have
\* different messages, and the message is empty exactly for Valid.
C19_FirstFailingCheckDecides ==
    hostCheck # NoCheck =>
        /\ hostCheck.result \in HostnameOutcomes
        /\ hostCheck.result = FirstFailingCheck(trimmed(hostCheck.input))
        /\ hostCheck.input = <<"-", "b", "a", "d", "s", "t", "a", "r", "t">>
               => hostCheck.result = "InvalidCharacters"
        /\ hostCheck.input = <<"a", ".", ".", "b">>
               => hostCheck.result = "ConsecutiveDots"
        /\ hostCheck.input = <<>> => hostCheck.result = "Empty"
        /\ hostCheck.input = ValidHost => hostCheck.result = "Valid"
        /\ \A o \in HostnameOutcomes :
               hostCheck.message = hostnameValidationMessageForResult(o)
                   <=> o = hostCheck.result
        /\ hostCheck.message = "" <=> hostCheck.result = "Valid"

\* C19's case: a name with a leading hyphen has been validated and refused
\* with a message.
C19_Witness ==
    /\ hostCheck.input = <<"-", "b", "a", "d", "s", "t", "a", "r", "t">>
    /\ hostCheck.result = "InvalidCharacters"
    /\ hostCheck.message # ""

\* C20: after a call of setHostname, with t the trimmed argument: if t is
\* invalid or equals the hostname cached at entry, the cached hostname is what
\* it was, hostnameChanged was not emitted and nothing was requested of the
\* system; otherwise the cached hostname is t, hostnameChanged was emitted
\* exactly once, and the static and then the transient hostname were requested
\* to be t.
C20_SetHostnameEffect ==
    hostCall # NoCall =>
        LET t == trimmed(hostCall.input)
        IN  IF ~isHostnameValid(hostCall.input) \/ t = hostCall.was
            THEN /\ m_hostname = hostCall.was
                 /\ hostCall.emitted = 0
                 /\ hostCall.sent = <<>>
            ELSE /\ m_hostname = t
                 /\ hostCall.emitted = 1
                 /\ Len(hostCall.sent) = 2
                 /\ hostCall.sent[1] = [method |-> "SetStaticHostname", hostname |-> t]
                 /\ hostCall.sent[2] = [method |-> "SetHostname", hostname |-> t]

\* C20's case: a valid name given with surrounding blanks has replaced a
\* different cached one.
C20_Witness ==
    /\ hostCall.input = <<" ">> \o ValidHost \o <<" ">>
    /\ hostCall.was # ValidHost
    /\ m_hostname = ValidHost
    /\ hostCall.emitted = 1

-----------------------------------------------------------------------------
(* Order of the guard's system calls *)

\* Calls of the constructor carry the target's ids, which are never 0; calls
\* of the destructor carry 0.
IsEntryCall(e, op) == e.op = op /\ e.arg # 0
IsExitCall(e, op) == e.op = op /\ e.arg = 0

\* C21: on guard entry the supplementary groups are cleared by the root
\* process first, the effective gid is set to the target's gid second and the
\* effective uid to the same target's uid third: every setegid of an entry
\* directly follows a successful setgroups, every seteuid of an entry
\* directly follows a successful setegid of that entry, with the gid already
\* changed, and a failed step is not followed by a later step.
C21_EntryOrder ==
    \A i \in 1..Len(log) :
        /\ log[i].op = "setgroups" => log[i].euid = 0
        /\ IsEntryCall(log[i], "setegid") =>
               /\ i > 1
               /\ log[i - 1].op = "setgroups" /\ log[i - 1].ok
               /\ log[i].euid = 0
        /\ IsEntryCall(log[i], "seteuid") =>
               /\ i > 2
               /\ IsEntryCall(log[i - 1], "setegid") /\ log[i - 1].ok
               /\ log[i - 2].op = "setgroups"
               /\ log[i].egid = log[i - 1].arg
               /\ log[i].euid = 0
               /\ \E e \in PasswdDb : e.gid = log[i - 1].arg /\ e.uid = log[i].arg
        /\ (i < Len(log) /\ log[i].op = "setgroups" /\ ~log[i].ok) =>
               log[i + 1].op \notin {"setegid", "seteuid"}
        /\ (i < Len(log) /\ IsEntryCall(log[i], "setegid") /\ ~log[i].ok) =>
               log[i + 1].op # "seteuid"

\* C21's case: a guard has been entered through all three steps, the uid
\* changing while the gid was already the target's.
C21_Witness ==
    \E j \in 3..Len(log) :
        /\ IsEntryCall(log[j], "seteuid") /\ log[j].ok
        /\ log[j].egid # 0
        /\ log[j - 2].op = "setgroups"

\* C22: on guard exit the effective uid is set back to 0 first and the
\* effective gid second: every setegid(0) directly follows a successful
\* seteuid(0) and so is issued with effective uid 0, and no seteuid(0) is
\* issued after the gid has been restored.
C22_ExitUidFirst ==
    \A i \in 1..Len(log) :
        /\ IsExitCall(log[i], "setegid") =>
               /\ i > 1
               /\ IsExitCall(log[i - 1], "seteuid") /\ log[i - 1].ok
               /\ log[i].euid = 0
        /\ IsExitCall(log[i], "seteuid") =>
               (i > 1 => ~IsExitCall(log[i - 1], "setegid"))

-----------------------------------------------------------------------------
(* Reading as root, writing as the target user *)

\* The recorded calls that create or write something under a user's home.
IsHomeWrite(e) ==
    \/ e.op \in {"mkpath", "copy"}
    \/ e.op = "open_write" /\ e.arg = HookFile

\* C23: every source file under /run/plasma-setup/.config is opened with
\* effective uid 0; every creation or write under a home (the .config and
\* autostart directories, each copied file, the desktop entry) is made inside
\* the guard with the effective uid and gid of the resolved target user, and
\* touches that user's home only.
C23_ReadAsRootWriteAsTarget ==
    /\ [](\A i \in 1..Len(log) :
              /\ log[i].op = "open_source" => log[i].euid = 0
              /\ IsHomeWrite(log[i]) =>
                     \E e \in PasswdDb : /\ e.uid >= MIN_REGULAR_USER_UID
                                         /\ e.uid = log[i].euid
                                         /\ e.gid = log[i].egid)
    /\ [][home' # home =>
              /\ guards = 1
              /\ euid = userInfo.uid /\ egid = userInfo.gid
              /\ \A h \in DOMAIN home :
                     h # userInfo.homePath => home'[h] = home[h]]_vars

\* C23's case: a source file was read by root and its copy was written into
\* the home by the target user.
C23_Witness ==
    \E i, j \in 1..Len(log) :
        /\ i < j
        /\ log[i].op = "open_source" /\ log[i].ok /\ log[i].euid = 0
        /\ log[j].op = "copy" /\ log[j].ok /\ log[j].euid = userInfo.uid
        /\ home[userInfo.homePath].files[log[j].arg] # Absent

-----------------------------------------------------------------------------
(* Lifetime of the staged temporary files *)

StagingOps == {"QTemporaryFile::open", "open_source", "write_temp", "chmod_temp_0644"}

\* C24: every step of staging a file runs with effective uid 0, and a staged
\* file has been made world-readable; a staged file exists when its copy into
\* the home is made and still exists afterwards; staged files are only ever
\* added while root and only ever removed, all of them, by the handler's
\* return; so once the handler has returned, with Success or with any Error,
\* none of its staged files exists.
C24_StagedFileLifetime ==
    /\ [](/\ \A i \in 1..Len(log) : log[i].op \in StagingOps => log[i].euid = 0
          /\ \A f \in DOMAIN tempFiles :
                 \E i \in 1..Len(log) :
                     log[i].op = "chmod_temp_0644" /\ log[i].arg = f /\ log[i].ok
          /\ pc \in {"replied", "idle"} => tempFiles = NoTemp)
    /\ [][/\ (Len(log') = Len(log) + 1 /\ log'[Len(log')].op = "copy") =>
                 /\ log'[Len(log')].arg \in DOMAIN tempFiles
                 /\ log'[Len(log')].arg \in DOMAIN tempFiles'
          /\ tempFiles' # tempFiles =>
                 \/ /\ DOMAIN tempFiles \subseteq DOMAIN tempFiles'
                    /\ euid = 0 /\ guards = 0
                 \/ /\ tempFiles' = NoTemp
                    /\ pc = "return" /\ pc' = "replied"]_vars

\* C24's case: the handler has returned an error because its second file
\* could not be staged, after the first had been staged.
C24_Witness ==
    /\ pc = "replied" /\ reply.status = "Error"
    /\ tempFiles = NoTemp
    /\ \E i, j \in 1..Len(log) :
           /\ i < j
           /\ log[i].op = "chmod_temp_0644" /\ log[i].ok
           /\ log[j].op \in StagingOps /\ ~log[j].ok
           /\ log[j].arg # log[i].arg

-----------------------------------------------------------------------------
(* The hostname page (modules/hostname/contents/ui/main.qml) and its Debouncer *)

\* Texts the user types into the hostname field.
TypedHostnames ==
    { <<>>, ValidHost, <<" ">> \o ValidHost \o <<" ">>, <<"a", ".", ".", "b">>,
      Localhost }

\* nextEnabled: !root.validationPending && root.debouncedHostnameValid
nextEnabled == ~hostnamePage.validationPending /\ hostnamePage.debouncedHostnameValid

\* hostnameField.onTextChanged, for a field that now holds `text`:
\* hasEdited, validationPending, validationDebouncer.reset()
onTextChanged(page, text) ==
    [page EXCEPT !.text = text, !.hasEdited = TRUE, !.validationPending = TRUE,
                 !.isTriggered = FALSE, !.running = TRUE, !.elapsed = 0]

\* Every text the field can come to hold: typed, loaded, set by
\* onPageActivated, or a trimmed hostname shown through the binding.
FieldTexts ==
    LET raw == TypedHostnames \cup LoadedHostnames
                   \cup {<<"p", "l", "a", "s", "m", "a", "-", "p", "c">>,
                         UserBob \o <<"-", "p", "c">>}
    IN  raw \cup {trimmed(t) : t \in raw}

\* What HostnameUtil.isHostnameValid and HostnameUtil.hostnameValidationMessage
\* return for each text of the field.
FieldVerdict ==
    [t \in FieldTexts |-> [valid |-> isHostnameValid(t),
                           message |-> hostnameValidationMessage(t)]]

\* function updateValidation()
pageUpdateValidation(page) ==
    [page EXCEPT !.debouncedHostnameValid = FieldVerdict[page.text].valid,
                 !.debouncedHostnameMessage = FieldVerdict[page.text].message,
                 !.validated = page.text,
                 !.validationPending = FALSE]

\* The page as Component.onCompleted leaves it: the field shows the loaded
\* hostname, updateValidation() has run; the field's first text, if any, has
\* started the debouncer unless the handler was not yet connected.
HostnamePageInit ==
    /\ HelperAtRest
    /\ loginDefs \in LoginDefsChoices
    /\ passwdEntries = NoPasswd
    /\ m_username \in {<<>>, UserBob} /\ m_password = <<>>
    /\ uidRange = <<DEFAULT_MIN_REGULAR_USER_ID, DEFAULT_MAX_REGULAR_USER_ID>>
    /\ m_hasExistingUsers = FALSE
    /\ guiPc = "ready"
    /\ requests = <<>>
    /\ m_hostname \in LoadedHostnames
    /\ hostCheck = NoCheck /\ hostCall = NoCall
    /\ accountPage = NoAccountPage
    /\ plasmaLoginEnabled = FALSE /\ plasmaloginConf = Absent
    /\ configUserGroups = Absent
    /\ \E started \in BOOLEAN :
           /\ started => m_hostname # <<>>
           /\ hostnamePage =
                  pageUpdateValidation(
                      IF started THEN onTextChanged(NoHostnamePage, m_hostname)
                      ELSE [NoHostnamePage EXCEPT !.text = m_hostname])

\* function onPageActivated(): a default hostname is replaced in the field by
\* "<username>-pc", which unbinds the field's text.
onPageActivated ==
    /\ guiPc = "ready"
    /\ m_hostname \in {Localhost, Localhost \o <<".">> \o Localdomain}
    /\ LET prefix == IF Len(m_username) > 0 THEN m_username
                     ELSE <<"p", "l", "a", "s", "m", "a">>
           text == prefix \o <<"-", "p", "c">>
       IN  hostnamePage' =
               IF text = hostnamePage.text
               THEN [hostnamePage EXCEPT !.bound = FALSE]
               ELSE [onTextChanged(hostnamePage, text) EXCEPT !.bound = FALSE]
    /\ hostnamePage' # hostnamePage
    /\ UNCHANGED <<helperVars, guiVars, passwdEntries, uidRange, m_hasExistingUsers,
                   guiPc, requests, m_hostname, hostCheck, hostCall, accountPage,
                   plasmaLoginEnabled, plasmaloginConf, configUserGroups>>

\* An edit of the field that leaves the change unreported to the page.
textEditedUnreported(text) ==
    /\ guiPc = "ready"
    /\ text # hostnamePage.text
    /\ hostnamePage.edits < MaxEdits
    /\ hostnamePage' = [hostnamePage EXCEPT !.text = text, !.edits = @ + 1]
    /\ UNCHANGED <<helperVars, guiVars, passwdEntries, uidRange, m_hasExistingUsers,
                   guiPc, requests, m_hostname, hostCheck, hostCall, accountPage,
                   plasmaLoginEnabled, plasmaloginConf, configUserGroups>>

\* The user changes the field's text: hostnameField.onTextChanged
textEdited(text) ==
    /\ guiPc = "ready"
    /\ text # hostnamePage.text
    /\ hostnamePage.edits < MaxEdits
    /\ hostnamePage' = [onTextChanged(hostnamePage, text) EXCEPT !.edits = @ + 1]
    /\ UNCHANGED <<helperVars, guiVars, passwdEntries, uidRange, m_hasExistingUsers,
                   guiPc, requests, m_hostname, hostCheck, hostCall, accountPage,
                   plasmaLoginEnabled, plasmaloginConf, configUserGroups>>

\* Time passes while the Debouncer's timer runs.
Tick ==
    /\ hostnamePage.running /\ hostnamePage.elapsed < HumanMoment
    /\ hostnamePage' = [hostnamePage EXCEPT !.elapsed = @ + 1]
    /\ UNCHANGED <<helperVars, guiVars, passwdEntries, uidRange, m_hasExistingUsers,
                   guiPc, requests, m_hostname, hostCheck, hostCall, accountPage,
                   plasmaLoginEnabled, plasmaloginConf, configUserGroups>>

\* Debouncer.onTriggered: isTriggered = true; debounced(), handled by
\* onDebounced: root.updateValidation(). The timer does not repeat.
onTriggered ==
    /\ hostnamePage.running /\ hostnamePage.elapsed = HumanMoment
    /\ hostnamePage' = pageUpdateValidation(
                           [hostnamePage EXCEPT !.running = FALSE, !.isTriggered = TRUE])
    /\ UNCHANGED <<helperVars, guiVars, passwdEntries, uidRange, m_hasExistingUsers,
                   guiPc, requests, m_hostname, hostCheck, hostCall, accountPage,
                   plasmaLoginEnabled, plasmaloginConf, configUserGroups>>

\* hostnameField.onEditingFinished: HostnameUtil.hostname = text (setHostname;
\* a hostnameChanged updates a field still bound to it, which reports the
\* change of its text), validationDebouncer.stop(), root.updateValidation()
onEditingFinished ==
    /\ guiPc = "ready"
    /\ LET t == trimmed(hostnamePage.text)
           accepted == t # m_hostname /\ validateHostname(t) = "Valid"
           shown == IF accepted /\ hostnamePage.bound /\ t # hostnamePage.text
                    THEN onTextChanged(hostnamePage, t)
                    ELSE hostnamePage
       IN  /\ m_hostname' = IF accepted THEN t ELSE m_hostname
           /\ hostCall' = [input |-> hostnamePage.text, was |-> m_hostname,
                           emitted |-> IF accepted THEN 1 ELSE 0,
                           sent |-> IF accepted THEN setHostnameOnSystem(t) ELSE <<>>]
           /\ hostnamePage' = pageUpdateValidation([shown EXCEPT !.running = FALSE])
    /\ UNCHANGED <<helperVars, guiVars, passwdEntries, uidRange, m_hasExistingUsers,
                   guiPc, requests, hostCheck, accountPage,
                   plasmaLoginEnabled, plasmaloginConf, configUserGroups>>

HostnamePageNext ==
    \/ onPageActivated
    \/ \E text \in TypedHostnames : textEdited(text)
    \/ Tick
    \/ onTriggered
    \/ onEditingFinished

\* The timer's interval passes and the timer fires once it has.
HostnamePageSpec ==
    /\ HostnamePageInit
    /\ [][HostnamePageNext]_vars
    /\ WF_vars(Tick)
    /\ WF_vars(onTriggered)

\* C25: on the hostname page every change of the field's text leaves
\* validation pending with the debouncer restarted, unless the same handler
\* went on to validate the new text; the debounced signal is emitted only when
\* the timer has run its whole interval since it was last reset; whenever Next
\* is enabled the text last validated is the text in the field, and it is
\* valid; and pending validation always ends in a validation once the user
\* stops editing.
C25_NextOnlyForValidatedText ==
    /\ [][hostnamePage'.text # hostnamePage.text =>
              \/ /\ hostnamePage'.validationPending
                 /\ hostnamePage'.running /\ hostnamePage'.elapsed = 0
                 /\ ~hostnamePage'.isTriggered
              \/ /\ ~hostnamePage'.validationPending
                 /\ hostnamePage'.validated = hostnamePage'.text]_vars
    /\ [][(hostnamePage'.isTriggered /\ ~hostnamePage.isTriggered) =>
              hostnamePage.running /\ hostnamePage.elapsed = HumanMoment]_vars
    /\ [](nextEnabled =>
              /\ hostnamePage.validated = hostnamePage.text
              /\ isHostnameValid(hostnamePage.text))
    /\ [](hostnamePage.validationPending => hostnamePage.running)
    /\ (hostnamePage.validationPending ~>
            (~hostnamePage.validationPending
             /\ hostnamePage.validated = hostnamePage.text))

\* C25's case: after edits the debouncer has fired, the text in the field was
\* validated and Next is enabled.
C25_Witness ==
    /\ hostnamePage.edits > 0
    /\ hostnamePage.isTriggered
    /\ nextEnabled
    /\ hostnamePage.text = ValidHost

-----------------------------------------------------------------------------
(* Order of the requests of InitialStartUtil::finish() *)

\* C26: in finish() no createuser, setnewuserglobaltheme or
\* setnewuserdisplayscaling is requested when existing users were detected;
\* setnewuserglobaltheme is requested directly after a createuser that
\* succeeded and setnewuserdisplayscaling directly after
\* setnewuserglobaltheme; the flag-file request is the last request, coming
\* after every user-creation step; and logging out is the last thing done,
\* after the flag-file request, with no request following it.
C26_FinishOrder ==
    /\ [](/\ m_hasExistingUsers =>
                 \A i \in 1..Len(requests) : requests[i].action \notin SetupSteps
          /\ \A i \in 1..Len(requests) :
                 /\ requests[i].action = "setnewuserglobaltheme" =>
                        /\ i > 1
                        /\ requests[i - 1].action = "createuser" /\ requests[i - 1].ok
                 /\ requests[i].action = "setnewuserdisplayscaling" =>
                        /\ i > 1
                        /\ requests[i - 1].action = "setnewuserglobaltheme"
                 /\ requests[i].action = "createflagfile" => i = Len(requests)
                 /\ (requests[i].action = "createuser" /\ requests[i].ok) =>
                        (guiPc \in {"createCompletionFlag", "logOut", "loggedOut"} =>
                             /\ i + 2 <= Len(requests)
                             /\ requests[i + 2].action = "setnewuserdisplayscaling")
          /\ guiPc = "loggedOut" =>
                 /\ requests # <<>>
                 /\ requests[Len(requests)].action = "createflagfile")
    /\ [][guiPc = "loggedOut" => requests' = requests /\ guiPc' = guiPc]_vars

\* C26's case: a run in which the user was created, both display settings
\* were requested, the flag was requested and the session was logged out.
C26_Witness ==
    /\ guiPc = "loggedOut"
    /\ Len(requests) = 5
    /\ requests[2].action = "createuser" /\ requests[2].ok
    /\ requests[3].action = "setnewuserglobaltheme"
    /\ requests[4].action = "setnewuserdisplayscaling"
    /\ requests[5].action = "createflagfile"

-----------------------------------------------------------------------------
(* The account page (modules/account/contents/ui/main.qml) *)

Secret == <<"p", "w">>
Secret2 == <<"p", "w", "2">>

\* Texts the user types into the password fields.
TypedPasswords == {<<>>, Secret, Secret2}
\* Texts the user types into the username field.
TypedUsernames == {<<>>, UserBob}

\* nextEnabled of the account page
accountNextEnabled ==
    /\ Len(accountPage.usernameField) > 0
    /\ Len(accountPage.paswordField) > 0
    /\ accountPage.repeatField = accountPage.paswordField

\* The account page as it is first shown.
AccountPageInit ==
    /\ HelperAtRest
    /\ loginDefs \in LoginDefsChoices
    /\ passwdEntries = NoPasswd
    /\ m_username = <<>> /\ m_password = <<>>
    /\ uidRange = <<DEFAULT_MIN_REGULAR_USER_ID, DEFAULT_MAX_REGULAR_USER_ID>>
    /\ m_hasExistingUsers = FALSE
    /\ guiPc = "ready"
    /\ requests = <<>>
    /\ m_hostname \in LoadedHostnames
    /\ hostCheck = NoCheck /\ hostCall = NoCall
    /\ PagesIdle

\* The user changes the username field; the Binding on AccountController's
\* username calls setUsername with the field's text.
usernameFieldEdited(text) ==
    /\ guiPc = "ready"
    /\ text # accountPage.usernameField
    /\ accountPage' = [accountPage EXCEPT !.usernameField = text]
    /\ m_username' = text
    /\ UNCHANGED <<helperVars, m_password, passwdEntries, uidRange, m_hasExistingUsers,
                   guiPc, requests, m_hostname, hostCheck, hostCall, hostnamePage,
                   plasmaLoginEnabled, plasmaloginConf, configUserGroups>>

\* The user changes the password field; paswordField.onTextChanged only
\* shows the quality meter.
paswordFieldEdited(text) ==
    /\ guiPc = "ready"
    /\ text # accountPage.paswordField
    /\ accountPage' = [accountPage EXCEPT !.paswordField = text]
    /\ UNCHANGED <<helperVars, guiVars, passwdEntries, uidRange, m_hasExistingUsers,
                   guiPc, requests, m_hostname, hostCheck, hostCall, hostnamePage,
                   plasmaLoginEnabled, plasmaloginConf, configUserGroups>>

\* The user changes the confirm field; repeatField.onTextChanged only deals
\* with the mismatch message.
repeatFieldEdited(text) ==
    /\ guiPc = "ready"
    /\ text # accountPage.repeatField
    /\ accountPage' = [accountPage EXCEPT !.repeatField = text]
    /\ UNCHANGED <<helperVars, guiVars, passwdEntries, uidRange, m_hasExistingUsers,
                   guiPc, requests, m_hostname, hostCheck, hostCall, hostnamePage,
                   plasmaLoginEnabled, plasmaloginConf, configUserGroups>>

\* repeatField.onEditingFinished: AccountController.password = text when the
\* confirm field is non-empty and equals the password field.
repeatFieldEditingFinished ==
    /\ guiPc = "ready"
    /\ m_password' = IF Len(accountPage.repeatField) < 1
                        \/ accountPage.repeatField # accountPage.paswordField
                     THEN m_password
                     ELSE accountPage.repeatField
    /\ m_password' # m_password
    /\ UNCHANGED <<helperVars, m_username, passwdEntries, uidRange, m_hasExistingUsers,
                   guiPc, requests, m_hostname, hostCheck, hostCall, pageVars>>

AccountPageNext ==
    \/ \E text \in TypedUsernames : usernameFieldEdited(text)
    \/ \E text \in TypedPasswords : paswordFieldEdited(text)
    \/ \E text \in TypedPasswords : repeatFieldEdited(text)
    \/ repeatFieldEditingFinished

AccountPageSpec == AccountPageInit /\ [][AccountPageNext]_vars

\* C27: whenever Next is enabled on the account page (username and password
\* fields non-empty, confirm field equal to the password field),
\* AccountController's password is the text of the password field.
C27_NextMeansPasswordStored ==
    accountNextEnabled => m_password = accountPage.paswordField

-----------------------------------------------------------------------------
(* BootUtil and the removal of the boot-time autologin *)

SDDM_AUTOLOGIN_CONFIG_PATH == "/etc/sddm.conf.d/99-plasma-setup.conf"
PLASMALOGIN_AUTOLOGIN_CONFIG_PATH == "/etc/plasmalogin.conf.d/99-plasma-setup.conf"

\* static QString displayManagerConfigPath(): which of the two files is the
\* active display manager's.
displayManagerConfigPath ==
    IF plasmaLoginEnabled THEN PLASMALOGIN_AUTOLOGIN_CONFIG_PATH
    ELSE SDDM_AUTOLOGIN_CONFIG_PATH

\* The system as the boot utility finds it: no autologin file of either
\* display manager, the helper not yet started by any request.
BootInit ==
    /\ alive = TRUE /\ euid = 0 /\ egid = 0 /\ suppGroups = TRUE /\ guards = 0
    /\ pc = "idle" /\ req = NoReq /\ reply = NoReply /\ userInfo = NoUser
    /\ tempFiles = NoTemp /\ pending = NoReply /\ idx = 1 /\ log = <<>>
    /\ home = [h \in Homes |-> FreshHome]
    /\ sddmConf = Absent
    /\ src = [f \in ConfigFiles |-> SrcBytes(f)]
    /\ unitFile = TRUE /\ unitEnabled = TRUE
    /\ accounts = {}
    /\ loginDefs \in LoginDefsChoices
    /\ m_username = <<>> /\ m_password = <<>>
    /\ before = Snapshot
    /\ passwdEntries = NoPasswd
    /\ uidRange = <<DEFAULT_MIN_REGULAR_USER_ID, DEFAULT_MAX_REGULAR_USER_ID>>
    /\ m_hasExistingUsers = FALSE
    /\ guiPc = "ready"
    /\ requests = <<>>
    /\ m_hostname = <<>> /\ hostCheck = NoCheck /\ hostCall = NoCall
    /\ hostnamePage = NoHostnamePage /\ accountPage = NoAccountPage
    /\ plasmaLoginEnabled \in BOOLEAN
    /\ plasmaloginConf = Absent
    /\ configUserGroups = Absent

\* bool BootUtil::writeDisplayManagerAutologin(const bool autoLogin); ok is
\* whether the file operation it comes to succeeds. It runs while the helper
\* handles no request.
writeDisplayManagerAutologin(autoLogin, ok) ==
    /\ alive /\ pc = "idle"
    /\ LET toPlasmaLogin == displayManagerConfigPath = PLASMALOGIN_AUTOLOGIN_CONFIG_PATH
           current == IF toPlasmaLogin THEN plasmaloginConf ELSE sddmConf
           written == IF ~autoLogin
                      THEN IF current # Absent /\ ok THEN Absent ELSE current
                      ELSE IF ok THEN BootAutologin ELSE current
       IN  /\ (~autoLogin /\ current = Absent) => ok
           /\ IF toPlasmaLogin
              THEN /\ plasmaloginConf' = written
                   /\ UNCHANGED sddmConf
              ELSE /\ sddmConf' = written
                   /\ UNCHANGED plasmaloginConf
    /\ before' = [before EXCEPT !.sddmConf = sddmConf']
    /\ UNCHANGED <<procVars, home, src, unitEnabled, guiVars, pc, req, reply, userInfo,
                   tempFiles, pending, idx, log, accounts, loginDefs, unitFile,
                   passwdEntries, uidRange, m_hasExistingUsers, guiPc, requests,
                   m_hostname, hostCheck, hostCall, hostnamePage, accountPage,
                   plasmaLoginEnabled, configUserGroups>>

BootNext ==
    \/ \E autoLogin, ok \in BOOLEAN : writeDisplayManagerAutologin(autoLogin, ok)
    \/ \E arg \in ArgValues : Invoke("removeautologin", arg)
    \/ \E ok \in BOOLEAN : removeautologin(ok)
    \/ Return
    \/ ReceiveReply

BootSpec == BootInit /\ [][BootNext]_vars

\* C28: for either display manager, once removeautologin has returned
\* Success, no 99-plasma-setup.conf autologin file of the boot utility is on
\* disk: neither the sddm one nor the plasmalogin one.
C28_RemoveAutologinRemovesBootFile ==
    (pc = "replied" /\ req.action = "removeautologin" /\ reply.status = "Success") =>
        /\ sddmConf = Absent
        /\ plasmaloginConf = Absent

-----------------------------------------------------------------------------
(* Reachability of the hostname validator's outcomes *)

\* The trimmed text t has an empty stretch between, before or after its dots.
HasEmptyLabel(t) ==
    LET labels == splitOnDot(t)
    IN  \E n \in 1..Len(labels) : labels[n] = <<>>

\* For each of the names the page may be given: does its split hold an empty
\* label?
SplitHasEmptyLabel == [h \in RawHostnames |-> HasEmptyLabel(trimmed(h))]

\* The outcome of validating each of the names the page may be given.
OutcomeOf == [h \in RawHostnames |-> validateHostname(h)]

-----------------------------------------------------------------------------
(* The groups of the new user *)

Sudo == <<"s", "u", "d", "o">>

\* Values of the UserGroups entry as readEntry gives them.
UserGroupsChoices ==
    { Absent,
      <<>>,
      Wheel,
      Wheel \o <<",">> \o Sudo,
      Wheel \o <<",", " ">> \o Sudo,
      Sudo \o <<" ", ",">> \o Wheel,
      <<",">>,
      <<",", ",">>,
      Wheel \o <<",", ",">> \o Sudo,
      <<",", " ", ",">>,
      Wheel \o <<",", " ", ",">> \o Sudo,
      Wheel \o <<",", " ">> }

\* AccountController::AccountController with some UserGroups entry in the
\* configuration.
GroupsInit ==
    /\ alive = TRUE /\ euid = 0 /\ egid = 0 /\ suppGroups = TRUE /\ guards = 0
    /\ pc = "idle" /\ req = NoReq /\ reply = NoReply /\ userInfo = NoUser
    /\ tempFiles = NoTemp /\ pending = NoReply /\ idx = 1 /\ log = <<>>
    /\ home = [h \in Homes |-> FreshHome]
    /\ sddmConf = BootAutologin
    /\ src = [f \in ConfigFiles |-> SrcBytes(f)]
    /\ unitFile = TRUE /\ unitEnabled = TRUE
    /\ accounts = {}
    /\ loginDefs \in LoginDefsChoices
    /\ m_username = <<>> /\ m_password = <<>>
    /\ before = Snapshot
    /\ passwdEntries = NoPasswd
    /\ uidRange = <<DEFAULT_MIN_REGULAR_USER_ID, DEFAULT_MAX_REGULAR_USER_ID>>
    /\ m_hasExistingUsers = FALSE
    /\ guiPc = "ready"
    /\ requests = <<>>
    /\ m_hostname = <<>> /\ hostCheck = NoCheck /\ hostCall = NoCall
    /\ hostnamePage = NoHostnamePage /\ accountPage = NoAccountPage
    /\ plasmaLoginEnabled = FALSE
    /\ plasmaloginConf = Absent
    /\ configUserGroups \in UserGroupsChoices

GroupsSpec == GroupsInit /\ [][AccountNext]_vars

\* The names between the commas of the UserGroups entry, trimmed, those of
\* nothing but blanks left out.
ConfiguredNames ==
    LET configuredGroups == IF configUserGroups = Absent THEN <<>> ELSE configUserGroups
        groupNames == splitSkipEmptyParts(configuredGroups, ",", <<>>)
        names == [n \in 1..Len(groupNames) |-> trimmed(groupNames[n])]
    IN  SelectSeq(names, LAMBDA name : name # <<>>)

\* C30: the groups createUser asks for are never an empty list and never hold
\* an empty name, whatever the UserGroups entry is: they are wheel alone, or
\* the configured names, each trimmed and not empty, in their order.
C30_GroupsNeverEmpty ==
    req.action = "createuser" =>
        /\ req.extraGroups # <<>>
        /\ \A n \in 1..Len(req.extraGroups) :
               /\ req.extraGroups[n] # <<>>
               /\ req.extraGroups[n] = trimmed(req.extraGroups[n])
        /\ \/ req.extraGroups = <<Wheel>>
           \/ req.extraGroups = ConfiguredNames

====
